---------------------------- MODULE Spec2Model ----------------------------
(***************************************************************************)
(* Product catalog backend: the in-memory gallery store and product store, *)
(* and the services that operate on them (galleryService, productService); *)
(* and the storefront's image zoom hook (useImageZoom).                    *)
(*                                                                         *)
(* Every service function is an async function without an await after its  *)
(* validation, so on the single JavaScript thread it runs to completion:   *)
(* each is one atomic action here.  The concurrent specification does not  *)
(* take that for granted: it runs galleryImageCreate and galleryImageDelete*)
(* statement by statement for several requests in flight, and lets another *)
(* request run between two statements only where the handler yields.       *)
(*                                                                         *)
(* Nullable fields (price, promotionalPrice, currentVariationId) hold      *)
(* Null (the empty tuple) or Some(v) (a one-element tuple).  Fields that   *)
(* no operation reads and that are copied verbatim (thumbnailUrl,          *)
(* resolutionUrls, captionText, detailedDescription) are left out of the   *)
(* image records.                                                          *)
(***************************************************************************)
EXTENDS Integers, Sequences, FiniteSets, TLC

VARIABLES
    galleries,   \* GalleryStore.galleries: records in Map insertion order
    images,      \* GalleryStore.images: records in Map insertion order
    variations,  \* GalleryStore.variations: records in Map insertion order
    records,     \* ProductStore.records: records in Map insertion order
    now,         \* the clock, in whole days
    last,        \* the last service call: its name, arguments and outcome
    inflight,    \* the requests a handler is running for, each with its
                 \* position in the handler and its local values
    zoomState    \* the state of the storefront's useImageZoom hook

vars == <<galleries, images, variations, records, now, last, inflight, zoomState>>
galleryVars == <<galleries, images, variations>>
productVars == <<records, now>>

Null == <<>>
Some(v) == <<v>>

(***************************************************************************)
(* Bounds of the model.  MAX_IMAGES stands for GALLERY_DEFAULTS.MAX_IMAGES *)
(* (50 in galleryDefaults.ts), scaled down so that a gallery can be filled.*)
(***************************************************************************)
MAX_IMAGES == 2

\* identifiers getNextId can return for images: one more than a full gallery
ImageIds == 1..(MAX_IMAGES + 1)
GalleryIds == {1, 2}
GalleryProductIds == {"p1", "p2"}
VariationIds == {"v1", "v2"}
Urls == {"u1", "u2"}
ImageCategories == {"frontal", "lateral", "detalhes", "ambiente", "perspectiva"}

\* GALLERY_DEFAULTS read by the gallery service
INITIAL_IMAGE_INDEX == 1
DISPLAY_MODE == "page"
SHOW_CAPTION == TRUE

(***************************************************************************)
(* GalleryStore                                                            *)
(***************************************************************************)
Range(s) == {s[i] : i \in DOMAIN s}

\* the first index of s whose record has this id, 0 when there is none
IndexOfId(s, id) ==
    IF \E i \in DOMAIN s : s[i].id = id
    THEN CHOOSE i \in DOMAIN s : s[i].id = id /\ \A j \in 1..(i - 1) : s[j].id # id
    ELSE 0

\* Map.has
HasId(s, id) == IndexOfId(s, id) # 0

\* Map.get of a key that is present
GetId(s, id) == s[IndexOfId(s, id)]

\* Map.set: a present key keeps its place, a new key is appended
SetId(s, id, rec) ==
    IF HasId(s, id) THEN [s EXCEPT ![IndexOfId(s, id)] = rec] ELSE Append(s, rec)

\* Map.delete
DeleteId(s, id) == SelectSeq(s, LAMBDA r : r.id # id)

\* { ...existing, ...data }: the fields of data override those of existing
Merge(existing, data) ==
    [f \in DOMAIN existing |-> IF f \in DOMAIN data THEN data[f] ELSE existing[f]]

\* a lookup that misses the galleries that hold no image
HasGalleryOfProductWithImages(gs, productId) ==
    \E i \in DOMAIN gs : gs[i].productId = productId /\ gs[i].totalImages > 0

\* getByProductId: Array.find returns the first gallery of the product
HasGalleryOfProduct(gs, productId) == \E i \in DOMAIN gs : gs[i].productId = productId

getByProductId(gs, productId) ==
    gs[CHOOSE i \in DOMAIN gs :
          /\ gs[i].productId = productId
          /\ \A j \in 1..(i - 1) : gs[j].productId # productId]

calculateLazyLoadPriority(category) ==
    CASE category = "frontal" -> 1
      [] category = "lateral" -> 2
      [] category = "detalhes" -> 3
      [] category = "ambiente" -> 4
      [] category = "perspectiva" -> 5
      [] OTHER -> 5

\* a comparator that looks at displayOrder before lazyLoadPriority
compareImagesOrderFirst(a, b) ==
    IF a.displayOrder # b.displayOrder
    THEN a.displayOrder - b.displayOrder
    ELSE a.lazyLoadPriority - b.lazyLoadPriority

\* the comparator of getImagesByGalleryId
compareImages(a, b) ==
    IF a.lazyLoadPriority # b.lazyLoadPriority
    THEN a.lazyLoadPriority - b.lazyLoadPriority
    ELSE a.displayOrder - b.displayOrder

\* Array.prototype.sort with compareImages: a stable sort, as an insertion of
\* each element after the last element of the sorted prefix it does not precede
RECURSIVE InsertImage(_, _)
InsertImage(sorted, x) ==
    IF sorted = <<>> THEN <<x>>
    ELSE IF compareImages(x, sorted[Len(sorted)]) < 0
         THEN Append(InsertImage(SubSeq(sorted, 1, Len(sorted) - 1), x), sorted[Len(sorted)])
         ELSE Append(sorted, x)

RECURSIVE SortImages(_)
SortImages(s) ==
    IF s = <<>> THEN <<>>
    ELSE InsertImage(SortImages(SubSeq(s, 1, Len(s) - 1)), s[Len(s)])

\* an image query that returns nothing once a variation is named
getImagesByGalleryIdFiltered(imgs, galleryId, variationId) ==
    IF variationId = Null
    THEN SortImages(SelectSeq(imgs, LAMBDA img : img.galleryId = galleryId))
    ELSE <<>>

\* getImagesByGalleryId(galleryId, variationId?): the body never reads
\* variationId, which is Null when the caller passes none
getImagesByGalleryId(imgs, galleryId, variationId) ==
    SortImages(SelectSeq(imgs, LAMBDA img : img.galleryId = galleryId))

\* a capacity check that is off by one
AtCapacityOffByOne(n) == n > MAX_IMAGES

\* addImage rejects when the gallery already holds the maximum
AtCapacity(n) == n >= MAX_IMAGES

\* addImage on a gallery that exists: threw names the Error it throws, if any
addImage(gs, imgs, image) ==
    LET gallery == GetId(gs, image.galleryId)
        currentImages == getImagesByGalleryId(imgs, image.galleryId, Null)
    IN  IF AtCapacity(Len(currentImages))
        THEN [threw |-> "Maximum images limit reached for this gallery",
              galleries |-> gs, images |-> imgs]
        ELSE [threw |-> "",
              galleries |-> SetId(gs, gallery.id,
                                  [gallery EXCEPT !.totalImages = Len(currentImages) + 1]),
              images |-> SetId(imgs, image.id, image)]

updateGallery(gs, id, data) ==
    IF HasId(gs, id) THEN SetId(gs, id, Merge(GetId(gs, id), data)) ELSE gs

updateImage(imgs, id, data) ==
    IF HasId(imgs, id) THEN SetId(imgs, id, Merge(GetId(imgs, id), data)) ELSE imgs

\* a deleteImage that counts the images before it removes one
deleteImageStaleCount(gs, imgs, id) ==
    LET image == GetId(imgs, id)
    IN  [images |-> DeleteId(imgs, id),
         galleries |->
            IF HasId(gs, image.galleryId)
            THEN SetId(gs, image.galleryId,
                       [GetId(gs, image.galleryId) EXCEPT
                           !.totalImages = Len(getImagesByGalleryId(imgs, image.galleryId, Null))])
            ELSE gs]

\* a deleteImage that removes every image of the gallery
deleteImageWholeGallery(gs, imgs, id) ==
    LET image == GetId(imgs, id)
        imgs1 == SelectSeq(imgs, LAMBDA img : img.galleryId # image.galleryId)
    IN  [images |-> imgs1,
         galleries |->
            IF HasId(gs, image.galleryId)
            THEN SetId(gs, image.galleryId,
                       [GetId(gs, image.galleryId) EXCEPT
                           !.totalImages = Len(getImagesByGalleryId(imgs1, image.galleryId, Null))])
            ELSE gs]

\* deleteImage of an image that exists
deleteImage(gs, imgs, id) ==
    LET image == GetId(imgs, id)
        imgs1 == DeleteId(imgs, id)
    IN  [images |-> imgs1,
         galleries |->
            IF HasId(gs, image.galleryId)
            THEN SetId(gs, image.galleryId,
                       [GetId(gs, image.galleryId) EXCEPT
                           !.totalImages = Len(getImagesByGalleryId(imgs1, image.galleryId, Null))])
            ELSE gs]

(***************************************************************************)
(* galleryService.  Every action records the call and its outcome in last: *)
(* err is "" on success and the ServiceError code otherwise.               *)
(***************************************************************************)
UsedImageIds == {images[i].id : i \in DOMAIN images}
UsedGalleryIds == {galleries[i].id : i \in DOMAIN galleries}

\* getVariationsByProductId
getVariationsByProductId(vs, productId) == SelectSeq(vs, LAMBDA v : v.productId = productId)

\* the response of galleryGet for a gallery that is stored
GalleryResponse(gs, gallery, productId, variationId) ==
    [gallery |-> gallery,
     images |-> getImagesByGalleryId(images, gallery.id, variationId),
     variations |-> getVariationsByProductId(variations, productId)]

\* variationId is Null when the query carries none: variationId || null
galleryGet(productId, variationId) ==
    /\ IF HasGalleryOfProduct(galleries, productId)
       THEN /\ galleries' = galleries
            /\ last' = [op |-> "galleryGet", err |-> "", productId |-> productId,
                        variationId |-> variationId, created |-> FALSE,
                        response |-> GalleryResponse(galleries,
                                        getByProductId(galleries, productId), productId,
                                        variationId)]
       ELSE \E galleryId \in GalleryIds \ UsedGalleryIds :
            LET gallery == [id |-> galleryId,
                            productId |-> productId,
                            mainImageUrl |-> "",
                            totalImages |-> 0,
                            currentImageIndex |-> INITIAL_IMAGE_INDEX,
                            currentVariationId |-> variationId,
                            displayMode |-> DISPLAY_MODE]
            IN  /\ galleries' = SetId(galleries, galleryId, gallery)
                /\ last' = [op |-> "galleryGet", err |-> "", productId |-> productId,
                            variationId |-> variationId, created |-> TRUE,
                            response |-> GalleryResponse(galleries', gallery, productId,
                                                         variationId)]
    /\ UNCHANGED <<images, variations, productVars, inflight, zoomState>>

\* a check that takes every image for the first
FirstImageCheckAlways(galleryAfterAdd) == galleryAfterAdd.totalImages >= 0

\* The service's local `gallery` is the very object the store holds: after
\* addImage has written gallery.totalImages, the service reads that value.
FirstImageCheck(galleryAfterAdd) == galleryAfterAdd.totalImages = 0

\* a create that never looks the gallery up
galleryImageCreateUnchecked(galleryId, fullSizeUrl, displayOrder, imageCategory) ==
    /\ UNCHANGED <<galleries, variations, productVars, inflight, zoomState>>
    /\ \E id \in ImageIds \ UsedImageIds :
          /\ images' = SetId(images, id,
                             [id |-> id,
                              galleryId |-> galleryId,
                              fullSizeUrl |-> fullSizeUrl,
                              displayOrder |-> displayOrder,
                              isActive |-> FALSE,
                              imageCategory |-> imageCategory,
                              lazyLoadPriority |-> calculateLazyLoadPriority(imageCategory),
                              showCaption |-> SHOW_CAPTION])
          /\ last' = [op |-> "galleryImageCreate", err |-> "",
                      galleryId |-> galleryId, imageId |-> id]

galleryImageCreate(galleryId, fullSizeUrl, displayOrder, imageCategory) ==
    /\ UNCHANGED <<variations, productVars, inflight, zoomState>>
    /\ IF ~HasId(galleries, galleryId)
       THEN /\ UNCHANGED <<galleries, images>>
            /\ last' = [op |-> "galleryImageCreate", err |-> "NOT_FOUND",
                        galleryId |-> galleryId, imageId |-> 0]
       ELSE IF addImage(galleries, images,
                        [galleryId |-> galleryId, id |-> 0]).threw # ""
       THEN /\ UNCHANGED <<galleries, images>>
            /\ last' = [op |-> "galleryImageCreate", err |-> "MAX_IMAGES_REACHED",
                        galleryId |-> galleryId, imageId |-> 0]
       ELSE \E id \in ImageIds \ UsedImageIds :
            LET newImage == [id |-> id,
                             galleryId |-> galleryId,
                             fullSizeUrl |-> fullSizeUrl,
                             displayOrder |-> displayOrder,
                             isActive |-> FALSE,
                             imageCategory |-> imageCategory,
                             lazyLoadPriority |-> calculateLazyLoadPriority(imageCategory),
                             showCaption |-> SHOW_CAPTION]
                added == addImage(galleries, images, newImage)
            IN  /\ images' = added.images
                /\ galleries' =
                      IF FirstImageCheck(GetId(added.galleries, galleryId))
                      THEN updateGallery(added.galleries, galleryId,
                                         [mainImageUrl |-> fullSizeUrl])
                      ELSE added.galleries
                /\ last' = [op |-> "galleryImageCreate", err |-> "",
                            galleryId |-> galleryId, imageId |-> id]

\* an update that copies the body and never recomputes lazyLoadPriority
ImageUpdatesKeepPriority(body) == body

\* body: the validated update, a record with some of the fields displayOrder,
\* imageCategory and showCaption
ImageUpdates(body) ==
    IF "imageCategory" \in DOMAIN body
    THEN [f \in DOMAIN body \cup {"lazyLoadPriority"} |->
             IF f = "lazyLoadPriority"
             THEN calculateLazyLoadPriority(body.imageCategory)
             ELSE body[f]]
    ELSE body

galleryImageUpdate(id, body) ==
    /\ UNCHANGED <<galleries, variations, productVars, inflight, zoomState>>
    /\ IF ~HasId(images, id)
       THEN /\ UNCHANGED images
            /\ last' = [op |-> "galleryImageUpdate", err |-> "NOT_FOUND", imageId |-> id]
       ELSE /\ images' = updateImage(images, id, ImageUpdates(body))
            /\ last' = [op |-> "galleryImageUpdate", err |-> "", imageId |-> id]

galleryImageDelete(id) ==
    /\ UNCHANGED <<variations, productVars, inflight, zoomState>>
    /\ IF ~HasId(images, id)
       THEN /\ UNCHANGED <<galleries, images>>
            /\ last' = [op |-> "galleryImageDelete", err |-> "NOT_FOUND", imageId |-> id]
       ELSE /\ images' = deleteImage(galleries, images, id).images
            /\ galleries' = deleteImage(galleries, images, id).galleries
            /\ last' = [op |-> "galleryImageDelete", err |-> "", imageId |-> id]

\* variation ids come from getNextId like every other id of the gallery store
UsedVariationIds == {variations[i].id : i \in DOMAIN variations}

productVariationCreate(productId, variationName) ==
    /\ UNCHANGED <<galleries, images, productVars, inflight, zoomState>>
    /\ \E id \in VariationIds \ UsedVariationIds :
          /\ variations' = SetId(variations, id,
                                 [id |-> id, productId |-> productId,
                                  variationName |-> variationName, isDefault |-> FALSE])
          /\ last' = [op |-> "productVariationCreate", err |-> "", id |-> id]

(***************************************************************************)
(* ProductStore.  Records never leave the Map, and identifiers are opaque  *)
(* (compared only for equality), so the n-th record added gets id n.       *)
(* MAX_PRODUCTS stands for PRODUCT_DEFAULTS.MAX_PRODUCTS (10000), scaled   *)
(* down so that the store can be filled.  Product records leave out        *)
(* mainImageUrl, availabilityStatus and isFeatured, which are only copied. *)
(***************************************************************************)
MAX_PRODUCTS == 2

\* PRODUCT_LIMITS
VIEW_WEIGHT == 1
CLICK_WEIGHT == 3
INTERACTION_WEIGHT == 2
NEW_PRODUCT_DAYS == 30
BATCH_SIZE == 24
ITEMS_PER_PAGE_OPTIONS == {12, 24, 48}

\* the clock counts TicksPerDay ticks a day
TicksPerDay == 2

\* names in the order localeCompare gives them
Names == <<"Armario", "Mesa", "Sofa">>
\* product codes LZ-0001, LZ-0002, LZ-0003, each by its number
Codes == {1, 2, 3}

\* a getAll that forgets the active flag
getAllUnfiltered(recs) == recs

\* getAll: the active records, in Map order
getAll(recs) == SelectSeq(recs, LAMBDA r : r.active)

\* a getById that returns inactive records too
HasActiveOrInactive(recs, id) == HasId(recs, id)

\* getById: the record, when it is stored and active
HasActive(recs, id) == HasId(recs, id) /\ GetId(recs, id).active

\* exists
exists(recs, id) == HasId(recs, id) /\ GetId(recs, id).active

\* a codeExists that forgets the excludeId
codeExistsNoExclude(recs, code, excludeId) ==
    \E i \in DOMAIN recs : recs[i].code = code /\ recs[i].active

\* codeExists(code, excludeId): excludeId is Null when the caller gives none
codeExists(recs, code, excludeId) ==
    \E i \in DOMAIN recs :
        recs[i].code = code /\ recs[i].active /\ Some(recs[i].id) # excludeId

\* a capacity check that counts the active records only
StoreFullActiveOnly(recs) == Len(getAll(recs)) >= MAX_PRODUCTS

\* add throws a plain Error when the Map already holds MAX_PRODUCTS records
StoreFull(recs) == Len(recs) >= MAX_PRODUCTS

\* update: { ...existing, ...data }
update(recs, id, data) ==
    IF HasId(recs, id) THEN SetId(recs, id, Merge(GetId(recs, id), data)) ELSE recs

\* a delete that drops the record from the Map
deleteHard(recs, id) == DeleteId(recs, id)

\* delete: the soft delete
delete(recs, id) ==
    IF HasId(recs, id) THEN SetId(recs, id, [GetId(recs, id) EXCEPT !.active = FALSE])
    ELSE recs

\* an isProductNew that stops at the thirtieth day
isProductNewBefore(createdDate, clock) ==
    ((clock - createdDate) \div TicksPerDay) < NEW_PRODUCT_DAYS

\* Math.floor((now - created) / day) <= NEW_PRODUCT_DAYS
isProductNew(createdDate, clock) ==
    ((clock - createdDate) \div TicksPerDay) <= NEW_PRODUCT_DAYS

\* a score that gives every counter the same weight
calculatePopularityScoreUnweighted(viewCount, clickCount, interactionCount) ==
    viewCount + clickCount + interactionCount

calculatePopularityScore(viewCount, clickCount, interactionCount) ==
    viewCount * VIEW_WEIGHT + clickCount * CLICK_WEIGHT +
        interactionCount * INTERACTION_WEIGHT

(***************************************************************************)
(* productService                                                          *)
(***************************************************************************)
Min(a, b) == IF a < b THEN a ELSE b

NameRank(name) == CHOOSE i \in DOMAIN Names : Names[i] = name

PriceOrZero(price) == IF price = Null THEN 0 ELSE price[1]

\* comparators that take a null price for 0
compareProductsNullAsZero(a, b, sortCriteria) ==
    CASE sortCriteria = "name_asc" -> NameRank(a.name) - NameRank(b.name)
      [] sortCriteria = "name_desc" -> NameRank(b.name) - NameRank(a.name)
      [] sortCriteria = "price_asc" -> PriceOrZero(a.price) - PriceOrZero(b.price)
      [] sortCriteria = "price_desc" -> PriceOrZero(b.price) - PriceOrZero(a.price)
      [] sortCriteria = "date_newest" -> b.createdDate - a.createdDate
      [] sortCriteria = "date_oldest" -> a.createdDate - b.createdDate
      [] sortCriteria = "popularity" -> b.popularityScore - a.popularityScore
      [] OTHER -> 0

\* the comparators of sortProducts; 0 for a criterion the switch does not know
compareProducts(a, b, sortCriteria) ==
    CASE sortCriteria = "name_asc" -> NameRank(a.name) - NameRank(b.name)
      [] sortCriteria = "name_desc" -> NameRank(b.name) - NameRank(a.name)
      [] sortCriteria = "price_asc" ->
            IF a.price = Null THEN 1
            ELSE IF b.price = Null THEN 0 - 1
            ELSE a.price[1] - b.price[1]
      [] sortCriteria = "price_desc" ->
            IF a.price = Null THEN 1
            ELSE IF b.price = Null THEN 0 - 1
            ELSE b.price[1] - a.price[1]
      [] sortCriteria = "date_newest" -> b.createdDate - a.createdDate
      [] sortCriteria = "date_oldest" -> a.createdDate - b.createdDate
      [] sortCriteria = "popularity" -> b.popularityScore - a.popularityScore
      [] OTHER -> 0

\* Array.prototype.sort with the comparator called as (later, earlier): each
\* element is inserted after the last element of the sorted prefix that it
\* does not precede
RECURSIVE InsertProduct(_, _, _)
InsertProduct(sorted, x, sortCriteria) ==
    IF sorted = <<>> THEN <<x>>
    ELSE IF compareProducts(x, sorted[Len(sorted)], sortCriteria) < 0
         THEN Append(InsertProduct(SubSeq(sorted, 1, Len(sorted) - 1), x, sortCriteria),
                     sorted[Len(sorted)])
         ELSE Append(sorted, x)

RECURSIVE sortProducts(_, _)
sortProducts(products, sortCriteria) ==
    IF products = <<>> THEN <<>>
    ELSE InsertProduct(sortProducts(SubSeq(products, 1, Len(products) - 1), sortCriteria),
                       products[Len(products)], sortCriteria)

mapToListResponse(product) ==
    [id |-> product.id,
     name |-> product.name,
     code |-> product.code,
     price |-> product.price,
     isNew |-> product.isNew,
     isPromotional |-> product.isPromotional,
     promotionalPrice |-> product.promotionalPrice]

\* products.map(mapToListResponse)
MapToListResponses(products) == [i \in DOMAIN products |-> mapToListResponse(products[i])]

\* a slice that takes the element at endIndex as well
SliceInclusive(s, startIndex, endIndex) ==
    SubSeq(s, startIndex + 1, Min(endIndex + 1, Len(s)))

\* Array.prototype.slice(startIndex, endIndex), indices from 0
Slice(s, startIndex, endIndex) == SubSeq(s, startIndex + 1, Min(endIndex, Len(s)))


\* a division that rounds down
CeilDivFloor(totalCount, itemsPerPage) == totalCount \div itemsPerPage

\* Math.ceil(totalCount / itemsPerPage)
CeilDiv(totalCount, itemsPerPage) == (totalCount + itemsPerPage - 1) \div itemsPerPage

\* { ...record, isNew: isProductNew(record.createdDate) }
WithIsNew(record, clock) ==
    [record EXCEPT !.isNew = isProductNew(record.createdDate, clock)]

\* the products productCatalog sorts: the active ones with isNew recomputed
CatalogProducts(recs, clock, sortCriteria) ==
    sortProducts([i \in DOMAIN getAll(recs) |-> WithIsNew(getAll(recs)[i], clock)], sortCriteria)

\* the pagination branch of productCatalog
PaginationResponse(allProducts, query) ==
    LET totalCount == Len(allProducts)
        totalPages == CeilDiv(totalCount, query.itemsPerPage)
        currentPage == Min(query.currentPage, IF totalPages = 0 THEN 1 ELSE totalPages)
        startIndex == (currentPage - 1) * query.itemsPerPage
        endIndex == startIndex + query.itemsPerPage
    IN  [totalProductsCount |-> totalCount,
         products |-> MapToListResponses(Slice(allProducts, startIndex, endIndex)),
         pagination |-> Some([currentPage |-> currentPage,
                              itemsPerPage |-> query.itemsPerPage,
                              totalPages |-> IF totalPages = 0 THEN 1 ELSE totalPages,
                              hasPrevious |-> currentPage > 1,
                              hasNext |-> currentPage < totalPages]),
         infiniteScroll |-> Null]

\* an infinite-scroll branch whose batch is the request's itemsPerPage
InfiniteScrollResponseItemsPerPage(allProducts, query) ==
    LET totalCount == Len(allProducts)
        startIndex == query.loadedItemsCount
        endIndex == startIndex + query.itemsPerPage
    IN  [totalProductsCount |-> totalCount,
         products |-> MapToListResponses(Slice(allProducts, startIndex, endIndex)),
         pagination |-> Null,
         infiniteScroll |-> Some([loadedItemsCount |-> Min(endIndex, totalCount),
                                  batchSize |-> query.itemsPerPage,
                                  hasMoreItems |-> endIndex < totalCount,
                                  isLoading |-> FALSE])]

\* the infinite-scroll branch of productCatalog
InfiniteScrollResponse(allProducts, query) ==
    LET totalCount == Len(allProducts)
        startIndex == query.loadedItemsCount
        endIndex == startIndex + BATCH_SIZE
    IN  [totalProductsCount |-> totalCount,
         products |-> MapToListResponses(Slice(allProducts, startIndex, endIndex)),
         pagination |-> Null,
         infiniteScroll |-> Some([loadedItemsCount |-> Min(endIndex, totalCount),
                                  batchSize |-> BATCH_SIZE,
                                  hasMoreItems |-> endIndex < totalCount,
                                  isLoading |-> FALSE])]

CatalogResponse(recs, clock, query) ==
    LET allProducts == CatalogProducts(recs, clock, query.sortCriteria)
    IN  IF query.navigationMode = "pagination"
        THEN PaginationResponse(allProducts, query)
        ELSE InfiniteScrollResponse(allProducts, query)

\* query: the validated request, with its defaults filled in
productCatalog(query) ==
    /\ UNCHANGED <<galleryVars, productVars, inflight, zoomState>>
    /\ last' = [op |-> "productCatalog", err |-> "", query |-> query,
                response |-> CatalogResponse(records, now, query)]

\* a schema without the refinement that requires a promotional price
PromotionalSchemaOkNotRequired(body) ==
    (body.isPromotional /\ body.promotionalPrice # Null /\ body.price # Null)
        => body.promotionalPrice[1] < body.price[1]

\* the two refinements of createSchema and of updateSchema; an absent
\* isPromotional counts as false and an absent promotionalPrice as null
PromotionalSchemaOk(body) ==
    /\ (body.isPromotional /\ body.promotionalPrice # Null /\ body.price # Null)
           => body.promotionalPrice[1] < body.price[1]
    /\ body.isPromotional => body.promotionalPrice # Null

\* body: name, code, price, isPromotional, promotionalPrice.  A plain Error
\* thrown by the store leaves the service as it is: err is then "Error".
productCreate(body) ==
    /\ UNCHANGED <<galleryVars, now, inflight, zoomState>>
    /\ IF ~PromotionalSchemaOk(body)
       THEN /\ UNCHANGED records
            /\ last' = [op |-> "productCreate", err |-> "VALIDATION_ERROR",
                        id |-> 0, code |-> body.code]
       ELSE IF codeExists(records, body.code, Null)
       THEN /\ UNCHANGED records
            /\ last' = [op |-> "productCreate", err |-> "DUPLICATE_CODE",
                        id |-> 0, code |-> body.code]
       ELSE IF StoreFull(records)
       THEN /\ UNCHANGED records
            /\ last' = [op |-> "productCreate", err |-> "Error",
                        id |-> 0, code |-> body.code]
       ELSE LET id == Len(records) + 1
                newProduct == [id |-> id,
                               name |-> body.name,
                               code |-> body.code,
                               price |-> body.price,
                               isNew |-> TRUE,
                               createdDate |-> now,
                               isPromotional |-> body.isPromotional,
                               promotionalPrice |-> body.promotionalPrice,
                               popularityScore |-> 0,
                               viewCount |-> 0,
                               clickCount |-> 0,
                               interactionCount |-> 0,
                               lastPopularityUpdate |-> now,
                               active |-> TRUE]
            IN  /\ records' = Append(records, newProduct)
                /\ last' = [op |-> "productCreate", err |-> "", id |-> id,
                            code |-> body.code]

productGet(id) ==
    /\ UNCHANGED <<galleryVars, productVars, inflight, zoomState>>
    /\ IF ~HasActive(records, id)
       THEN last' = [op |-> "productGet", err |-> "NOT_FOUND", id |-> id,
                     response |-> Null]
       ELSE last' = [op |-> "productGet", err |-> "", id |-> id,
                     response |-> Some(WithIsNew(GetId(records, id), now))]

\* a check that compares the codes the wrong way round
UpdateIsDuplicateInverted(recs, existing, id, code) ==
    code = existing.code /\ codeExists(recs, code, Some(id))

\* the check productUpdate makes before it writes
UpdateIsDuplicate(recs, existing, id, code) ==
    code # existing.code /\ codeExists(recs, code, Some(id))

\* body: name, code, price, active, isPromotional, promotionalPrice
productUpdate(id, body) ==
    /\ UNCHANGED <<galleryVars, now, inflight, zoomState>>
    /\ IF ~PromotionalSchemaOk(body)
       THEN /\ UNCHANGED records
            /\ last' = [op |-> "productUpdate", err |-> "VALIDATION_ERROR",
                        id |-> id, code |-> body.code, existingCode |-> Null,
                        response |-> Null]
       ELSE IF ~HasActive(records, id)
       THEN /\ UNCHANGED records
            /\ last' = [op |-> "productUpdate", err |-> "NOT_FOUND",
                        id |-> id, code |-> body.code, existingCode |-> Null,
                        response |-> Null]
       ELSE IF UpdateIsDuplicate(records, GetId(records, id), id, body.code)
       THEN /\ UNCHANGED records
            /\ last' = [op |-> "productUpdate", err |-> "DUPLICATE_CODE",
                        id |-> id, code |-> body.code, existingCode |-> Some(GetId(records, id).code),
                        response |-> Null]
       ELSE /\ records' = update(records, id, body)
            /\ last' = [op |-> "productUpdate", err |-> "", id |-> id,
                        code |-> body.code, existingCode |-> Some(GetId(records, id).code),
                        response |-> Some(WithIsNew(GetId(records', id), now))]

productDelete(id) ==
    /\ UNCHANGED <<galleryVars, now, inflight, zoomState>>
    /\ IF ~exists(records, id)
       THEN /\ UNCHANGED records
            /\ last' = [op |-> "productDelete", err |-> "NOT_FOUND", id |-> id]
       ELSE /\ records' = delete(records, id)
            /\ last' = [op |-> "productDelete", err |-> "", id |-> id]

\* updates that count every call as a view as well
InteractionUpdatesAlsoView(product, interactionType) ==
    LET viewCount == product.viewCount + 1
        clickCount == product.clickCount + (IF interactionType = "click" THEN 1 ELSE 0)
        interactionCount ==
            product.interactionCount + (IF interactionType = "interaction" THEN 1 ELSE 0)
    IN  [viewCount |-> viewCount, clickCount |-> clickCount,
         interactionCount |-> interactionCount,
         popularityScore |-> calculatePopularityScore(viewCount, clickCount,
                                                      interactionCount)]

\* the updates productInteraction writes: the counter of the interaction type
\* and the score recomputed from the three counters
InteractionUpdates(product, interactionType) ==
    LET viewCount == product.viewCount + (IF interactionType = "view" THEN 1 ELSE 0)
        clickCount == product.clickCount + (IF interactionType = "click" THEN 1 ELSE 0)
        interactionCount ==
            product.interactionCount + (IF interactionType = "interaction" THEN 1 ELSE 0)
        score == calculatePopularityScore(viewCount, clickCount, interactionCount)
    IN  CASE interactionType = "view" ->
                [viewCount |-> viewCount, popularityScore |-> score]
          [] interactionType = "click" ->
                [clickCount |-> clickCount, popularityScore |-> score]
          [] interactionType = "interaction" ->
                [interactionCount |-> interactionCount, popularityScore |-> score]

productInteraction(productId, interactionType) ==
    /\ UNCHANGED <<galleryVars, now, inflight, zoomState>>
    /\ IF ~HasActive(records, productId)
       THEN /\ UNCHANGED records
            /\ last' = [op |-> "productInteraction", err |-> "NOT_FOUND",
                        id |-> productId, interactionType |-> interactionType]
       ELSE /\ records' = update(records, productId,
                                 InteractionUpdates(GetId(records, productId),
                                                    interactionType))
            /\ last' = [op |-> "productInteraction", err |-> "", id |-> productId,
                        interactionType |-> interactionType]

(***************************************************************************)
(* useImageZoom.  Levels are the numbers 1, 2, 4, 8; a position is counted *)
(* in steps of 1/PositionScale, so that 0.5 is HalfScale and the interval  *)
(* [0, 1] is 0..PositionScale.                                             *)
(***************************************************************************)
ZOOM_LEVELS == <<1, 2, 4, 8>>

HalfScale == 3
PositionScale == 2 * HalfScale

InitialZoomState ==
    [level |-> 1, positionX |-> HalfScale, positionY |-> HalfScale,
     isActive |-> FALSE]

\* Array.prototype.indexOf, from 0; -1 when the level is not in the array
indexOf(levels, level) ==
    IF \E i \in DOMAIN levels : levels[i] = level
    THEN (CHOOSE i \in DOMAIN levels :
             levels[i] = level /\ \A j \in 1..(i - 1) : levels[j] # level) - 1
    ELSE 0 - 1

\* a clamp that bounds the position from above only
ClampUpper(x) == IF x > PositionScale THEN PositionScale ELSE x

\* Math.max(0, Math.min(1, x))
Clamp(x) ==
    LET m == IF x > PositionScale THEN PositionScale ELSE x
    IN  IF m < 0 THEN 0 ELSE m

zoomIn ==
    /\ LET currentIndex == indexOf(ZOOM_LEVELS, zoomState.level)
       IN  IF currentIndex < Len(ZOOM_LEVELS) - 1
           THEN LET newLevel == ZOOM_LEVELS[currentIndex + 2]
                IN  zoomState' = [zoomState EXCEPT !.level = newLevel,
                                                   !.isActive = newLevel > 1]
           ELSE zoomState' = zoomState
    /\ UNCHANGED <<galleryVars, productVars, last, inflight>>

zoomOut ==
    /\ LET currentIndex == indexOf(ZOOM_LEVELS, zoomState.level)
       IN  IF currentIndex > 0
           THEN LET newLevel == ZOOM_LEVELS[currentIndex]
                IN  zoomState' = [zoomState EXCEPT !.level = newLevel,
                                                   !.isActive = newLevel > 1]
           ELSE zoomState' = zoomState
    /\ UNCHANGED <<galleryVars, productVars, last, inflight>>

resetZoom ==
    /\ zoomState' = [level |-> 1, positionX |-> HalfScale,
                     positionY |-> HalfScale, isActive |-> FALSE]
    /\ UNCHANGED <<galleryVars, productVars, last, inflight>>

setZoomPosition(x, y) ==
    /\ zoomState' = [zoomState EXCEPT !.positionX = Clamp(x), !.positionY = Clamp(y)]
    /\ UNCHANGED <<galleryVars, productVars, last, inflight>>

toggleZoom ==
    /\ IF zoomState.level = 1
       THEN zoomState' = [zoomState EXCEPT !.level = 2, !.isActive = TRUE]
       ELSE zoomState' = [level |-> 1, positionX |-> HalfScale,
                          positionY |-> HalfScale, isActive |-> FALSE]
    /\ UNCHANGED <<galleryVars, productVars, last, inflight>>

(***************************************************************************)
(* Requests in flight.  The controller awaits the service function, whose  *)
(* body holds no await: once a handler has started, the thread runs it to  *)
(* its end before it starts or resumes any other request.                  *)
(***************************************************************************)
Requests == {"r1", "r2"}

Idle == [pc |-> "idle"]

\* a handler that yields between its statements
YieldsInsideHandlerAwaits == TRUE

\* whether galleryImageCreate or galleryImageDelete yields the thread between
\* two of its statements: neither holds an await
YieldsInsideHandler == FALSE

\* r has run some statements of its handler and not yet the last
Running(r) == inflight[r].pc \in {"checked", "inserted", "found", "removed"}

\* the thread can run the next statement of r
MayRun(r) == YieldsInsideHandler \/ \A q \in Requests \ {r} : ~Running(q)

\* the ids getNextId has handed to creates that have not stored their image
ReservedImageIds ==
    {inflight[r].imageId : r \in {q \in Requests : inflight[q].pc = "checked"}}

\* a request arrives: the body of a create names a gallery, the params of a
\* delete name an image
Receive(r, kind, target) ==
    /\ inflight[r].pc \in {"idle", "done"}
    /\ inflight' = [inflight EXCEPT ![r] = [pc |-> "received", kind |-> kind,
                                            target |-> target]]
    /\ UNCHANGED <<galleryVars, productVars, last, zoomState>>

\* galleryImageCreate up to the capacity check of addImage
CreateCheck(r) ==
    /\ inflight[r].pc = "received"
    /\ inflight[r].kind = "create"
    /\ MayRun(r)
    /\ UNCHANGED <<galleryVars, productVars, last, zoomState>>
    /\ LET galleryId == inflight[r].target
           currentImages == getImagesByGalleryId(images, galleryId, Null)
           unused == ImageIds \ (UsedImageIds \cup ReservedImageIds)
       IN  IF ~HasId(galleries, galleryId)
           THEN inflight' = [inflight EXCEPT ![r] = [pc |-> "done", err |-> "NOT_FOUND"]]
           ELSE IF AtCapacity(Len(currentImages))
           THEN inflight' = [inflight EXCEPT
                                ![r] = [pc |-> "done", err |-> "MAX_IMAGES_REACHED"]]
           ELSE /\ unused # {}
                /\ inflight' = [inflight EXCEPT
                       ![r] = [pc |-> "checked", kind |-> "create", target |-> galleryId,
                               imageId |-> CHOOSE id \in unused : \A o \in unused : id <= o,
                               count |-> Len(currentImages)]]

\* addImage: this.images.set(image.id, image)
CreateInsert(r) ==
    /\ inflight[r].pc = "checked"
    /\ MayRun(r)
    /\ images' = SetId(images, inflight[r].imageId,
                       [id |-> inflight[r].imageId,
                        galleryId |-> inflight[r].target,
                        fullSizeUrl |-> "u1",
                        displayOrder |-> 1,
                        isActive |-> FALSE,
                        imageCategory |-> "frontal",
                        lazyLoadPriority |-> calculateLazyLoadPriority("frontal"),
                        showCaption |-> SHOW_CAPTION])
    /\ inflight' = [inflight EXCEPT ![r].pc = "inserted"]
    /\ UNCHANGED <<galleries, variations, productVars, last, zoomState>>

\* addImage: gallery.totalImages = currentImages.length + 1, then the
\* first-image check of the service
CreateCount(r) ==
    /\ inflight[r].pc = "inserted"
    /\ MayRun(r)
    /\ LET galleryId == inflight[r].target
           counted == SetId(galleries, galleryId,
                            [GetId(galleries, galleryId) EXCEPT
                                !.totalImages = inflight[r].count + 1])
       IN  galleries' = IF FirstImageCheck(GetId(counted, galleryId))
                        THEN updateGallery(counted, galleryId, [mainImageUrl |-> "u1"])
                        ELSE counted
    /\ inflight' = [inflight EXCEPT ![r] = [pc |-> "done", err |-> ""]]
    /\ UNCHANGED <<images, variations, productVars, last, zoomState>>

\* galleryImageDelete up to the lookup of deleteImage
DeleteCheck(r) ==
    /\ inflight[r].pc = "received"
    /\ inflight[r].kind = "delete"
    /\ MayRun(r)
    /\ UNCHANGED <<galleryVars, productVars, last, zoomState>>
    /\ IF ~HasId(images, inflight[r].target)
       THEN inflight' = [inflight EXCEPT ![r] = [pc |-> "done", err |-> "NOT_FOUND"]]
       ELSE inflight' = [inflight EXCEPT
                            ![r] = [pc |-> "found", kind |-> "delete",
                                    target |-> inflight[r].target,
                                    galleryId |-> GetId(images, inflight[r].target).galleryId]]

\* deleteImage: this.images.delete(id)
DeleteRemove(r) ==
    /\ inflight[r].pc = "found"
    /\ MayRun(r)
    /\ images' = DeleteId(images, inflight[r].target)
    /\ inflight' = [inflight EXCEPT ![r].pc = "removed"]
    /\ UNCHANGED <<galleries, variations, productVars, last, zoomState>>

\* deleteImage: gallery.totalImages = getImagesByGalleryId(galleryId).length
DeleteCount(r) ==
    /\ inflight[r].pc = "removed"
    /\ MayRun(r)
    /\ LET galleryId == inflight[r].galleryId
       IN  galleries' =
               IF HasId(galleries, galleryId)
               THEN SetId(galleries, galleryId,
                          [GetId(galleries, galleryId) EXCEPT
                              !.totalImages =
                                  Len(getImagesByGalleryId(images, galleryId, Null))])
               ELSE galleries
    /\ inflight' = [inflight EXCEPT ![r] = [pc |-> "done", err |-> ""]]
    /\ UNCHANGED <<images, variations, productVars, last, zoomState>>

(***************************************************************************)
(* The initial state: both stores empty, as constructed.                   *)
(***************************************************************************)
Init ==
    /\ galleries = <<>>
    /\ images = <<>>
    /\ variations = <<>>
    /\ records = <<>>
    /\ now = 0
    /\ last = [op |-> "init", err |-> ""]
    /\ inflight = [r \in Requests |-> Idle]
    /\ zoomState = InitialZoomState

\* the requests the gallery specification draws from
GalleryUpdateBodies ==
    {[displayOrder |-> 2]}

GalleryGetStep ==
    \E productId \in GalleryProductIds : galleryGet(productId, Null)

GalleryImageCreateStep ==
    \E galleryId \in GalleryIds :
        galleryImageCreate(galleryId, "u1", 1, "frontal")

GalleryImageUpdateStep ==
    \E id \in ImageIds, body \in GalleryUpdateBodies : galleryImageUpdate(id, body)

GalleryImageDeleteStep ==
    \E id \in ImageIds : galleryImageDelete(id)

NextGallery ==
    \/ GalleryGetStep
    \/ GalleryImageCreateStep
    \/ GalleryImageUpdateStep
    \/ GalleryImageDeleteStep

SpecGallery == Init /\ [][NextGallery]_vars

(***************************************************************************)
(* The product specification: creation, update, soft delete and reads over *)
(* a store of at most MAX_PRODUCTS records.                                 *)
(***************************************************************************)
ProductIds == 1..(MAX_PRODUCTS + 1)

ProductBody(code, price) ==
    [name |-> "Mesa", code |-> code, price |-> price,
     isPromotional |-> FALSE, promotionalPrice |-> Null]

ProductUpdateBody(code, price, active) ==
    [name |-> "Mesa", code |-> code, price |-> price, active |-> active,
     isPromotional |-> FALSE, promotionalPrice |-> Null]

CatalogQuery(sortCriteria, navigationMode, currentPage, itemsPerPage, loadedItemsCount) ==
    [sortCriteria |-> sortCriteria, navigationMode |-> navigationMode,
     currentPage |-> currentPage, itemsPerPage |-> itemsPerPage,
     loadedItemsCount |-> loadedItemsCount]

ProductCreateStep ==
    \E code \in Codes, price \in {Null, Some(5)} : productCreate(ProductBody(code, price))

ProductUpdateStep ==
    \E id \in ProductIds, code \in Codes, active \in BOOLEAN :
        productUpdate(id, ProductUpdateBody(code, Null, active))

ProductDeleteStep ==
    \E id \in ProductIds : productDelete(id)

ProductGetStep ==
    \E id \in ProductIds : productGet(id)

ProductCatalogStep ==
    \E navigationMode \in {"pagination", "infinite_scroll"} :
        productCatalog(CatalogQuery("price_asc", navigationMode, 1, 12, 0))

NextProduct ==
    \/ ProductCreateStep
    \/ ProductUpdateStep
    \/ ProductDeleteStep
    \/ ProductGetStep
    \/ ProductCatalogStep

SpecProduct == Init /\ [][NextProduct]_vars

(***************************************************************************)
(* The popularity specification: interactions on products that are created *)
(* and updated, each counter capped at MaxCount.                           *)
(***************************************************************************)
MaxCount == 2

InteractionTypes == {"view", "click", "interaction"}

CounterOf(product, interactionType) ==
    CASE interactionType = "view" -> product.viewCount
      [] interactionType = "click" -> product.clickCount
      [] interactionType = "interaction" -> product.interactionCount

PopularityCreateStep ==
    productCreate(ProductBody(1, Null))

PopularityUpdateStep ==
    \E id \in ProductIds, code \in {1, 2} :
        productUpdate(id, ProductUpdateBody(code, Null, TRUE))

PopularityInteractionStep ==
    \E productId \in ProductIds, interactionType \in InteractionTypes :
        /\ HasId(records, productId) =>
              CounterOf(GetId(records, productId), interactionType) < MaxCount
        /\ productInteraction(productId, interactionType)

NextPopularity ==
    \/ PopularityCreateStep
    \/ PopularityUpdateStep
    \/ PopularityInteractionStep

SpecPopularity == Init /\ [][NextPopularity]_vars

(***************************************************************************)
(* The catalog specification: one productCatalog request on a store that   *)
(* already holds products.  The stores are those that productCreate,       *)
(* productInteraction and productDelete calls build (MAX_PRODUCTS is 10000 *)
(* in the source): every store of up to three active products priced null, *)
(* 5 or 10, and stores of up to MaxTotal products whose prices, views and  *)
(* active flags follow a pattern chosen by a seed.                         *)
(***************************************************************************)
MaxTotal == 50
MaxPage == 6

CatalogRecord(id, price, active, views) ==
    [id |-> id,
     name |-> Names[(id % 3) + 1],
     code |-> id,
     price |-> price,
     isNew |-> TRUE,
     createdDate |-> (id * 2) % 3,
     isPromotional |-> FALSE,
     promotionalPrice |-> Null,
     popularityScore |-> calculatePopularityScore(views, 0, 0),
     viewCount |-> views,
     clickCount |-> 0,
     interactionCount |-> 0,
     lastPopularityUpdate |-> (id * 2) % 3,
     active |-> active]

SmallPrices == {Null, Some(5), Some(10)}

SmallStores ==
    UNION {{[i \in 1..n |-> CatalogRecord(i, prices[i], TRUE, 0)] :
               prices \in [1..n -> SmallPrices]} : n \in 0..3}

\* seed 0 keeps every product active; the other seeds soft-delete one in five
PatternStore(n, seed) ==
    [i \in 1..n |->
        CatalogRecord(i,
                      IF (i + seed) % 3 = 0 THEN Null ELSE Some(5 * ((i * 7 + seed) % 4)),
                      seed = 0 \/ (i + seed) % 5 # 1,
                      (i + seed) % 3)]

PatternStores == {PatternStore(n, seed) : n \in 0..MaxTotal, seed \in 0..2}

InitCatalog ==
    /\ galleries = <<>>
    /\ images = <<>>
    /\ variations = <<>>
    /\ records \in SmallStores \cup PatternStores
    /\ now = 3
    /\ last = [op |-> "init", err |-> ""]
    /\ inflight = [r \in Requests |-> Idle]
    /\ zoomState = InitialZoomState

SortCriteria ==
    {"name_asc", "name_desc", "price_asc", "price_desc", "date_newest", "date_oldest",
     "popularity"}

PaginationStep ==
    /\ last.op = "init"
    /\ \E sortCriteria \in SortCriteria, currentPage \in 1..MaxPage,
          itemsPerPage \in ITEMS_PER_PAGE_OPTIONS :
          productCatalog(CatalogQuery(sortCriteria, "pagination", currentPage,
                                      itemsPerPage, 0))

InfiniteScrollStep ==
    /\ last.op = "init"
    /\ \E sortCriteria \in {"price_asc", "price_desc", "popularity"},
          itemsPerPage \in ITEMS_PER_PAGE_OPTIONS,
          loadedItemsCount \in {0, 10, 24, 26, 48, MaxTotal, MaxTotal + 10} :
          productCatalog(CatalogQuery(sortCriteria, "infinite_scroll", 1,
                                      itemsPerPage, loadedItemsCount))

NextCatalog == PaginationStep \/ InfiniteScrollStep

SpecCatalog == InitCatalog /\ [][NextCatalog]_vars

(***************************************************************************)
(* The gallery retrieval specification: galleryGet with and without a      *)
(* variation, on products that get variations and whose galleries get up   *)
(* to MaxGetImages images.                                                 *)
(***************************************************************************)
MaxGetImages == 2

\* what a galleryGet query can carry as variationId: nothing, or an id
RequestedVariations == {Null} \cup {Some(v) : v \in VariationIds}

GalleryGetVariationStep ==
    \E productId \in GalleryProductIds, variationId \in {Null, Some("v1")} :
        galleryGet(productId, variationId)

ProductVariationCreateStep ==
    productVariationCreate("p1", "Azul")

GalleryGetImageCreateStep ==
    /\ Len(images) < MaxGetImages
    /\ \E galleryId \in GalleryIds : galleryImageCreate(galleryId, "u1", 1, "frontal")

NextGalleryGet ==
    \/ GalleryGetVariationStep
    \/ ProductVariationCreateStep
    \/ GalleryGetImageCreateStep

SpecGalleryGet == Init /\ [][NextGalleryGet]_vars

(***************************************************************************)
(* The gallery ordering specification: one galleryGet on a store in which  *)
(* the galleries of two products already hold images.  The stores are      *)
(* those that two galleryGet calls and up to MaxOrderImages                *)
(* galleryImageCreate calls build: every sequence of images, each in       *)
(* either gallery, of one of three categories and with displayOrder 1 or 2,*)
(* that leaves no gallery above MAX_IMAGES.                                *)
(***************************************************************************)
MaxOrderImages == 3

OrderCategories == {"frontal", "lateral", "perspectiva"}

\* the image galleryImageCreate stores
StoredImage(id, galleryId, displayOrder, imageCategory) ==
    [id |-> id,
     galleryId |-> galleryId,
     fullSizeUrl |-> "u1",
     displayOrder |-> displayOrder,
     isActive |-> FALSE,
     imageCategory |-> imageCategory,
     lazyLoadPriority |-> calculateLazyLoadPriority(imageCategory),
     showCaption |-> SHOW_CAPTION]

\* the gallery galleryGet stores, after count images were added to it
StoredGallery(id, productId, count) ==
    [id |-> id,
     productId |-> productId,
     mainImageUrl |-> "",
     totalImages |-> count,
     currentImageIndex |-> INITIAL_IMAGE_INDEX,
     currentVariationId |-> Null,
     displayMode |-> DISPLAY_MODE]

\* the number of images of s that belong to the gallery
CountOfGallery(s, galleryId) == Cardinality({i \in DOMAIN s : s[i].galleryId = galleryId})

\* what the create calls chose: a gallery, a displayOrder and a category each
OrderChoices(n) == [1..n -> GalleryIds \X {1, 2} \X OrderCategories]

InitGalleryOrder ==
    /\ \E n \in 0..MaxOrderImages :
          \E f \in OrderChoices(n) :
              /\ \A g \in GalleryIds : Cardinality({i \in 1..n : f[i][1] = g}) <= MAX_IMAGES
              /\ images = [i \in 1..n |-> StoredImage(i, f[i][1], f[i][2], f[i][3])]
    /\ galleries = <<StoredGallery(1, "p1", CountOfGallery(images, 1)),
                     StoredGallery(2, "p2", CountOfGallery(images, 2))>>
    /\ variations = <<>>
    /\ records = <<>>
    /\ now = 0
    /\ last = [op |-> "init", err |-> ""]
    /\ inflight = [r \in Requests |-> Idle]
    /\ zoomState = InitialZoomState

GalleryOrderGetStep ==
    /\ last.op = "init"
    /\ \E productId \in GalleryProductIds : galleryGet(productId, Null)

NextGalleryOrder == GalleryOrderGetStep

SpecGalleryOrder == InitGalleryOrder /\ [][NextGalleryOrder]_vars

(***************************************************************************)
(* The promotion specification: products created and updated with every    *)
(* combination of price, isPromotional and promotionalPrice.  The n-th      *)
(* product is created with code n and keeps it.                            *)
(***************************************************************************)
Prices == {Null, Some(5)}
PromotionalPrices == {Null, Some(3), Some(5), Some(7)}

PromotionBody(code, price, isPromotional, promotionalPrice) ==
    [name |-> "Mesa", code |-> code, price |-> price,
     isPromotional |-> isPromotional, promotionalPrice |-> promotionalPrice]

PromotionUpdateBody(code, price, isPromotional, promotionalPrice) ==
    [name |-> "Mesa", code |-> code, price |-> price, active |-> TRUE,
     isPromotional |-> isPromotional, promotionalPrice |-> promotionalPrice]

PromotionCreateStep ==
    \E price \in Prices, isPromotional \in BOOLEAN, promotionalPrice \in PromotionalPrices :
        productCreate(PromotionBody(Len(records) + 1, price, isPromotional,
                                    promotionalPrice))

PromotionUpdateStep ==
    \E id \in ProductIds, price \in Prices, isPromotional \in BOOLEAN,
       promotionalPrice \in PromotionalPrices :
        productUpdate(id, PromotionUpdateBody(id, price, isPromotional, promotionalPrice))

NextPromotion == PromotionCreateStep \/ PromotionUpdateStep

SpecPromotion == Init /\ [][NextPromotion]_vars

(***************************************************************************)
(* The concurrent specification: two requests in flight on the galleries   *)
(* of one product, each a galleryImageCreate or a galleryImageDelete.      *)
(***************************************************************************)
ConcurrentGalleryGetStep ==
    /\ \A r \in Requests : MayRun(r)
    /\ galleryGet("p1", Null)

ReceiveStep ==
    \E r \in Requests :
        \/ \E galleryId \in GalleryIds : Receive(r, "create", galleryId)
        \/ \E imageId \in ImageIds : Receive(r, "delete", imageId)

CreateCheckStep == \E r \in Requests : CreateCheck(r)
CreateInsertStep == \E r \in Requests : CreateInsert(r)
CreateCountStep == \E r \in Requests : CreateCount(r)
DeleteCheckStep == \E r \in Requests : DeleteCheck(r)
DeleteRemoveStep == \E r \in Requests : DeleteRemove(r)
DeleteCountStep == \E r \in Requests : DeleteCount(r)

NextConcurrent ==
    \/ ConcurrentGalleryGetStep
    \/ ReceiveStep
    \/ CreateCheckStep
    \/ CreateInsertStep
    \/ CreateCountStep
    \/ DeleteCheckStep
    \/ DeleteRemoveStep
    \/ DeleteCountStep

SpecConcurrent == Init /\ [][NextConcurrent]_vars

(***************************************************************************)
(* The category specification: one product's gallery, images created as   *)
(* frontal or detalhes with displayOrder 1, and updates that carry a       *)
(* category alone or a category and a displayOrder.                        *)
(***************************************************************************)
RankCreateCategories == {"frontal", "detalhes"}

RankUpdateBodies ==
    {[imageCategory |-> "perspectiva"],
     [imageCategory |-> "ambiente", displayOrder |-> 2]}

\* the first galleryGet of the product, which creates its gallery
RankGetStep ==
    /\ ~HasGalleryOfProduct(galleries, "p1")
    /\ galleryGet("p1", Null)

RankImageCreateStep ==
    \E galleryId \in GalleryIds, imageCategory \in RankCreateCategories :
        galleryImageCreate(galleryId, "u1", 1, imageCategory)

RankImageUpdateStep ==
    \E id \in ImageIds, body \in RankUpdateBodies : galleryImageUpdate(id, body)

NextGalleryRank ==
    \/ RankGetStep
    \/ RankImageCreateStep
    \/ RankImageUpdateStep

SpecGalleryRank == Init /\ [][NextGalleryRank]_vars

(***************************************************************************)
(* The retry specification: products, a gallery and images are created;    *)
(* then a client holds one request, sends it, and sends it again with the  *)
(* same arguments.  The request the client holds is kept in inflight.      *)
(***************************************************************************)
Client == "r1"

RetryImageBodies == {[displayOrder |-> 2], [imageCategory |-> "lateral"]}

\* nothing is held yet: the stores are still being filled
Filling == inflight[Client].pc = "idle"

\* the client holds a request of this kind
Holds(kind) == inflight[Client].pc = "held" /\ inflight[Client].kind = kind

Hold(kind, args) ==
    /\ Filling
    /\ inflight' = [inflight EXCEPT ![Client] = [pc |-> "held", kind |-> kind,
                                                 args |-> args]]
    /\ UNCHANGED <<galleryVars, productVars, last, zoomState>>

RetryProductCreateStep ==
    /\ Filling
    /\ productCreate(ProductBody(Len(records) + 1, Null))

RetryGalleryGetStep ==
    /\ Filling
    /\ ~HasGalleryOfProduct(galleries, "p1")
    /\ galleryGet("p1", Null)

RetryImageCreateStep ==
    /\ Filling
    /\ \E galleryId \in UsedGalleryIds : galleryImageCreate(galleryId, "u1", 1, "frontal")

HoldStep ==
    \/ \E id \in ProductIds, code \in {1, 2}, active \in BOOLEAN :
          Hold("productUpdate", <<id, ProductUpdateBody(code, Null, active)>>)
    \/ \E id \in ProductIds : Hold("productDelete", <<id>>)
    \/ \E id \in ProductIds, interactionType \in InteractionTypes :
          Hold("productInteraction", <<id, interactionType>>)
    \/ \E productId \in GalleryProductIds : Hold("galleryGet", <<productId, Null>>)
    \/ \E id \in ImageIds, body \in RetryImageBodies :
          Hold("galleryImageUpdate", <<id, body>>)
    \/ \E id \in ImageIds : Hold("galleryImageDelete", <<id>>)

SendProductUpdateStep ==
    /\ Holds("productUpdate")
    /\ productUpdate(inflight[Client].args[1], inflight[Client].args[2])

SendProductDeleteStep ==
    /\ Holds("productDelete")
    /\ productDelete(inflight[Client].args[1])

\* the counters stay within MaxCount
SendProductInteractionStep ==
    /\ Holds("productInteraction")
    /\ HasId(records, inflight[Client].args[1]) =>
          CounterOf(GetId(records, inflight[Client].args[1]),
                    inflight[Client].args[2]) < MaxCount
    /\ productInteraction(inflight[Client].args[1], inflight[Client].args[2])

SendGalleryGetStep ==
    /\ Holds("galleryGet")
    /\ galleryGet(inflight[Client].args[1], inflight[Client].args[2])

SendImageUpdateStep ==
    /\ Holds("galleryImageUpdate")
    /\ galleryImageUpdate(inflight[Client].args[1], inflight[Client].args[2])

SendImageDeleteStep ==
    /\ Holds("galleryImageDelete")
    /\ galleryImageDelete(inflight[Client].args[1])

NextRetry ==
    \/ RetryProductCreateStep
    \/ RetryGalleryGetStep
    \/ RetryImageCreateStep
    \/ HoldStep
    \/ SendProductUpdateStep
    \/ SendProductDeleteStep
    \/ SendProductInteractionStep
    \/ SendGalleryGetStep
    \/ SendImageUpdateStep
    \/ SendImageDeleteStep

SpecRetry == Init /\ [][NextRetry]_vars

(***************************************************************************)
(* The clock specification: time passes between the calls.  The instants   *)
(* at which calls are made are the start, one day later, thirty days       *)
(* later, and the last tick of the thirty-first day and the tick after it. *)
(***************************************************************************)
ClockTimes ==
    {0, TicksPerDay, NEW_PRODUCT_DAYS * TicksPerDay,
     (NEW_PRODUCT_DAYS + 1) * TicksPerDay - 1, (NEW_PRODUCT_DAYS + 1) * TicksPerDay}

\* new Date() gives a later instant
ClockTickStep ==
    /\ \E t \in ClockTimes : t > now /\ now' = t
    /\ UNCHANGED <<galleryVars, records, last, inflight, zoomState>>

ClockCreateStep ==
    productCreate(ProductBody(Len(records) + 1, Null))

ClockGetStep ==
    \E id \in ProductIds : productGet(id)

ClockUpdateStep ==
    \E id \in ProductIds : productUpdate(id, ProductUpdateBody(id, Null, TRUE))

ClockCatalogStep ==
    productCatalog(CatalogQuery("date_newest", "pagination", 1, 12, 0))

NextClock ==
    \/ ClockTickStep
    \/ ClockCreateStep
    \/ ClockGetStep
    \/ ClockUpdateStep
    \/ ClockCatalogStep

SpecClock == Init /\ [][NextClock]_vars

(***************************************************************************)
(* The main-image specification: one product's gallery, images created     *)
(* with either URL, updated and deleted.                                   *)
(***************************************************************************)
MainGetStep ==
    /\ ~HasGalleryOfProduct(galleries, "p1")
    /\ galleryGet("p1", Null)

MainImageCreateStep ==
    \E galleryId \in UsedGalleryIds, fullSizeUrl \in Urls :
        galleryImageCreate(galleryId, fullSizeUrl, 1, "frontal")

MainImageUpdateStep ==
    \E id \in ImageIds : galleryImageUpdate(id, [displayOrder |-> 2])

MainImageDeleteStep ==
    \E id \in ImageIds : galleryImageDelete(id)

NextGalleryMain ==
    \/ MainGetStep
    \/ MainImageCreateStep
    \/ MainImageUpdateStep
    \/ MainImageDeleteStep

SpecGalleryMain == Init /\ [][NextGalleryMain]_vars

(***************************************************************************)
(* The interaction specification: products are created and soft-deleted,   *)
(* and interactions are recorded on stored, deleted and missing products,  *)
(* up to MaxCount interactions in all.                                     *)
(***************************************************************************)
RECURSIVE TotalInteractions(_)
TotalInteractions(recs) ==
    IF recs = <<>> THEN 0
    ELSE recs[1].viewCount + recs[1].clickCount + recs[1].interactionCount
             + TotalInteractions(Tail(recs))

InteractionCreateStep ==
    productCreate(ProductBody(Len(records) + 1, Null))

InteractionDeleteStep ==
    \E id \in ProductIds : productDelete(id)

InteractionRecordStep ==
    /\ TotalInteractions(records) < MaxCount
    /\ \E productId \in ProductIds, interactionType \in InteractionTypes :
          productInteraction(productId, interactionType)

NextInteraction ==
    \/ InteractionCreateStep
    \/ InteractionDeleteStep
    \/ InteractionRecordStep

SpecInteraction == Init /\ [][NextInteraction]_vars

(***************************************************************************)
(* The deactivation specification: products are created with one of two    *)
(* codes, updated with active true or false, soft-deleted, read and        *)
(* interacted with, up to MaxCount interactions in all.                    *)
(***************************************************************************)
InactiveCreateStep ==
    \E code \in {1, 2} : productCreate(ProductBody(code, Null))

InactiveUpdateStep ==
    \E id \in ProductIds, code \in {1, 2}, active \in BOOLEAN :
        productUpdate(id, ProductUpdateBody(code, Null, active))

InactiveDeleteStep ==
    \E id \in ProductIds : productDelete(id)

InactiveGetStep ==
    \E id \in ProductIds : productGet(id)

InactiveInteractionStep ==
    /\ TotalInteractions(records) < MaxCount
    /\ \E productId \in ProductIds : productInteraction(productId, "view")

NextInactive ==
    \/ InactiveCreateStep
    \/ InactiveUpdateStep
    \/ InactiveDeleteStep
    \/ InactiveGetStep
    \/ InactiveInteractionStep

SpecInactive == Init /\ [][NextInactive]_vars

(***************************************************************************)
(* The browsing specification: over a store that already holds products    *)
(* (those of InitCatalog) and does not change, a client fetches the        *)
(* catalog page after page, or batch after batch, each request built from  *)
(* the response to the one before.  What the client has received so far is *)
(* kept in inflight.                                                       *)
(***************************************************************************)
Browser == inflight[Client]

\* the request for the client's present position
BrowseQuery ==
    CatalogQuery(Browser.sortCriteria, Browser.navigationMode, Browser.currentPage,
                 Browser.itemsPerPage, Browser.loadedItemsCount)

\* the last call answered the request for the present position
Answered == last.op = "productCatalog" /\ last.query = BrowseQuery

\* the client chooses how to browse: pages of any allowed size, or batches
BrowseBegin(sortCriteria, navigationMode, itemsPerPage) ==
    /\ Browser.pc = "idle"
    /\ inflight' = [inflight EXCEPT ![Client] =
                       [pc |-> "browsing",
                        sortCriteria |-> sortCriteria,
                        navigationMode |-> navigationMode,
                        itemsPerPage |-> itemsPerPage,
                        currentPage |-> 1,
                        loadedItemsCount |-> 0,
                        totalProductsCount |-> 0,
                        received |-> <<>>,
                        sizes |-> <<>>]]
    /\ UNCHANGED <<galleryVars, productVars, last, zoomState>>

BrowseBeginStep ==
    \/ \E sortCriteria \in SortCriteria, itemsPerPage \in ITEMS_PER_PAGE_OPTIONS :
          BrowseBegin(sortCriteria, "pagination", itemsPerPage)
    \/ \E sortCriteria \in SortCriteria : BrowseBegin(sortCriteria, "infinite_scroll", 12)

BrowseCallStep ==
    /\ Browser.pc = "browsing"
    /\ ~Answered
    /\ productCatalog(BrowseQuery)

\* the client keeps the products of the response and moves to the next page,
\* or to the loadedItemsCount the response gives, until there is no more
BrowseAbsorbStep ==
    /\ Browser.pc = "browsing"
    /\ Answered
    /\ LET response == last.response
           paged == Browser.navigationMode = "pagination"
           more == IF paged
                   THEN Browser.currentPage < response.pagination[1].totalPages
                   ELSE response.infiniteScroll[1].hasMoreItems
       IN  inflight' = [inflight EXCEPT ![Client] =
               [Browser EXCEPT
                   !.pc = IF more THEN "browsing" ELSE "done",
                   !.currentPage = IF paged /\ more THEN @ + 1 ELSE @,
                   !.loadedItemsCount =
                       IF paged THEN @ ELSE response.infiniteScroll[1].loadedItemsCount,
                   !.totalProductsCount = response.totalProductsCount,
                   !.received = @ \o [i \in DOMAIN response.products |->
                                          response.products[i].id],
                   !.sizes = Append(@, Len(response.products))]]
    /\ UNCHANGED <<galleryVars, productVars, last, zoomState>>

NextBrowse ==
    \/ BrowseBeginStep
    \/ BrowseCallStep
    \/ BrowseAbsorbStep

SpecBrowse == InitCatalog /\ [][NextBrowse]_vars

(***************************************************************************)
(* The zoom specification: the calls the gallery component makes on the    *)
(* hook, with positions inside and outside the image.                      *)
(***************************************************************************)
ZoomInputs == (0 - 1)..(PositionScale + 1)

ZoomInStep == zoomIn
ZoomOutStep == zoomOut
ResetZoomStep == resetZoom
ToggleZoomStep == toggleZoom
SetZoomPositionStep == \E x \in ZoomInputs, y \in ZoomInputs : setZoomPosition(x, y)

NextZoom ==
    \/ ZoomInStep
    \/ ZoomOutStep
    \/ ResetZoomStep
    \/ ToggleZoomStep
    \/ SetZoomPositionStep

SpecZoom == Init /\ [][NextZoom]_vars

\* the backend services and the storefront hook
Next ==
    \/ NextGallery \/ NextGalleryGet \/ NextGalleryRank \/ NextConcurrent
    \/ NextProduct \/ NextPopularity \/ NextPromotion \/ NextRetry \/ NextClock
    \/ NextGalleryMain \/ NextInteraction \/ NextInactive \/ NextZoom
Spec == Init /\ [][Next]_vars

(***************************************************************************)
(* Claims about the gallery store, checked under SpecGallery.              *)
(***************************************************************************)
ImageCount(imgs, galleryId) ==
    Cardinality({i \in DOMAIN imgs : imgs[i].galleryId = galleryId})

C1_AtMostMax ==
    \A i \in DOMAIN galleries : ImageCount(images, galleries[i].id) <= MAX_IMAGES

C1_CreateAtLimit ==
    (last'.op = "galleryImageCreate" /\ HasId(galleries, last'.galleryId)) =>
        LET n == ImageCount(images, last'.galleryId)
        IN  /\ n = MAX_IMAGES =>
                  /\ last'.err = "MAX_IMAGES_REACHED"
                  /\ images' = images
                  /\ galleries' = galleries
            /\ n = MAX_IMAGES - 1 =>
                  /\ last'.err = ""
                  /\ ImageCount(images', last'.galleryId) = MAX_IMAGES

\* C1: no gallery ever holds more than MAX_IMAGES images; a galleryImageCreate
\* on a gallery holding exactly MAX_IMAGES images is rejected with
\* MAX_IMAGES_REACHED and changes neither the images nor the galleries, and one
\* on a gallery holding MAX_IMAGES - 1 images succeeds and fills the gallery.
C1_Capacity == [](C1_AtMostMax) /\ [][C1_CreateAtLimit]_vars

\* a create was rejected on a full gallery while the other gallery holds an image
C1_Witness ==
    /\ last.op = "galleryImageCreate"
    /\ last.err = "MAX_IMAGES_REACHED"
    /\ ImageCount(images, last.galleryId) = MAX_IMAGES
    /\ Len(images) = MAX_IMAGES + 1

\* C2: after a galleryImageCreate that succeeds on a gallery holding no image,
\* the stored gallery's mainImageUrl is the new image's fullSizeUrl.
C2_FirstImageSetsMain ==
    (/\ last.op = "galleryImageCreate"
     /\ last.err = ""
     /\ ImageCount(images, last.galleryId) = 1) =>
        GetId(galleries, last.galleryId).mainImageUrl =
            GetId(images, last.imageId).fullSizeUrl

\* C3: every gallery's totalImages is the number of stored images of that
\* gallery, in every reachable state.
C3_TotalImagesLive ==
    \A i \in DOMAIN galleries :
        galleries[i].totalImages = ImageCount(images, galleries[i].id)

\* an image was deleted from a gallery that still holds one, beside another
\* gallery that holds one too
C3_Witness ==
    /\ last.op = "galleryImageDelete"
    /\ last.err = ""
    /\ Len(galleries) = 2
    /\ \A i \in DOMAIN galleries : galleries[i].totalImages = 1

(***************************************************************************)
(* Claims about the product store, checked under SpecProduct.              *)
(***************************************************************************)
ActiveWithCode(recs, code) ==
    {recs[i].id : i \in {j \in DOMAIN recs : recs[j].active /\ recs[j].code = code}}

C4_UniqueCodes ==
    \A i, j \in DOMAIN records :
        (i # j /\ records[i].active /\ records[j].active) =>
            records[i].code # records[j].code

C4_DuplicateRejected ==
    /\ (/\ last'.op = "productCreate"
        /\ last'.err # "VALIDATION_ERROR"
        /\ ActiveWithCode(records, last'.code) # {}) =>
           (last'.err = "DUPLICATE_CODE" /\ records' = records)
    /\ (/\ last'.op = "productUpdate"
        /\ last'.err # "VALIDATION_ERROR"
        /\ HasActive(records, last'.id)
        /\ GetId(records, last'.id).code # last'.code
        /\ ActiveWithCode(records, last'.code) \ {last'.id} # {}) =>
           (last'.err = "DUPLICATE_CODE" /\ records' = records)

\* C4: no two active products ever have the same code; a productCreate with a
\* code an active product holds, and a productUpdate that changes the code to
\* one another active product holds, fail with DUPLICATE_CODE and leave the
\* store unchanged.
C4_CodeUnique == [](C4_UniqueCodes) /\ [][C4_DuplicateRejected]_vars

\* an update was rejected as a duplicate while two products are active
C4_Witness ==
    /\ last.op = "productUpdate"
    /\ last.err = "DUPLICATE_CODE"
    /\ Len(getAll(records)) = 2

C5_OwnCodeAccepted ==
    (/\ last'.op = "productUpdate"
     /\ HasActive(records, last'.id)
     /\ GetId(records, last'.id).code = last'.code) =>
        last'.err # "DUPLICATE_CODE"

C5_CodeExistsExcludes ==
    \A code \in Codes, id \in ProductIds :
        codeExists(records, code, Some(id)) <=>
            (ActiveWithCode(records, code) \ {id} # {})

\* C5: a productUpdate of an active product that submits the product's own
\* current code never fails with DUPLICATE_CODE; codeExists(code, excludeId)
\* is true exactly when an active record other than excludeId has the code.
C5_OwnCode == [](C5_CodeExistsExcludes) /\ [][C5_OwnCodeAccepted]_vars

\* an update that kept the product's code succeeded beside another active product
C5_Witness ==
    /\ last.op = "productUpdate"
    /\ last.err = ""
    /\ last.existingCode = Some(last.code)
    /\ Len(getAll(records)) = 2

C6_DeletedAbsent ==
    \A i \in DOMAIN records :
        ~records[i].active =>
            /\ ~HasActive(records, records[i].id)
            /\ \A j \in DOMAIN getAll(records) : getAll(records)[j].id # records[i].id
            /\ (last.op = "productGet" /\ last.id = records[i].id) =>
                  last.err = "NOT_FOUND"
            /\ last.op = "productCatalog" =>
                  \A k \in DOMAIN last.response.products :
                      last.response.products[k].id # records[i].id

C6_DeleteStep ==
    last'.op = "productDelete" =>
        /\ last'.err = "" => ~exists(records', last'.id)
        /\ (HasId(records, last'.id) /\ ~GetId(records, last'.id).active) =>
              (last'.err = "NOT_FOUND" /\ records' = records)

\* C6: a product that productDelete has deleted is absent from getAll, getById,
\* productGet and every productCatalog result, and a second productDelete of
\* it fails with NOT_FOUND and leaves the store unchanged.
C6_SoftDelete == [](C6_DeletedAbsent) /\ [][C6_DeleteStep]_vars

\* a second delete of a deleted product was rejected
C6_Witness ==
    /\ last.op = "productDelete"
    /\ last.err = "NOT_FOUND"
    /\ HasId(records, last.id)
    /\ ~GetId(records, last.id).active

(***************************************************************************)
(* Claims about popularity, checked under SpecPopularity.                  *)
(***************************************************************************)
C10_ScoreIsWeightedSum ==
    \A i \in DOMAIN records :
        records[i].popularityScore =
            records[i].viewCount * 1 + records[i].clickCount * 3 +
                records[i].interactionCount * 2

Counters(r) == <<r.viewCount, r.clickCount, r.interactionCount, r.popularityScore>>

C10_CreateAndUpdate ==
    /\ (last'.op = "productCreate" /\ last'.err = "") =>
           Counters(GetId(records', last'.id)) = <<0, 0, 0, 0>>
    /\ last'.op = "productUpdate" =>
           /\ Len(records') = Len(records)
           /\ \A i \in DOMAIN records : Counters(records'[i]) = Counters(records[i])

\* C10: every stored product's popularityScore is viewCount*1 + clickCount*3 +
\* interactionCount*2; a product is created with the counters and the score at
\* 0, and productUpdate changes neither the counters nor the score.
C10_Popularity == [](C10_ScoreIsWeightedSum) /\ [][C10_CreateAndUpdate]_vars

\* an interaction was recorded on a product whose three counters are positive
C10_Witness ==
    /\ last.op = "productInteraction"
    /\ last.err = ""
    /\ GetId(records, last.id).viewCount = 2
    /\ GetId(records, last.id).clickCount = 1
    /\ GetId(records, last.id).interactionCount >= 1

(***************************************************************************)
(* Claims about the catalog, checked under SpecCatalog.                    *)
(***************************************************************************)
ActiveCount == Cardinality({i \in DOMAIN records : records[i].active})

\* the products the response must hold: the sorted items at the positions
\* first, first + 1, ... (from 0) below first + size and below the total
ExpectedPage(sorted, first, size) ==
    [k \in 1..(IF first >= Len(sorted) THEN 0
               ELSE IF first + size > Len(sorted) THEN Len(sorted) - first
               ELSE size) |-> mapToListResponse(sorted[first + k])]

\* C7: in pagination mode totalPages is max(1, ceil(total/itemsPerPage)),
\* currentPage is min(requested page, totalPages), the products are the sorted
\* items at positions [(currentPage-1)*itemsPerPage, currentPage*itemsPerPage),
\* hasPrevious is currentPage > 1 and hasNext is currentPage < totalPages.
C7_Pagination ==
    (last.op = "productCatalog" /\ last.query.navigationMode = "pagination") =>
        LET itemsPerPage == last.query.itemsPerPage
            total == ActiveCount
            ceil == CHOOSE n \in 0..total :
                        n * itemsPerPage >= total /\ (n - 1) * itemsPerPage < total
            totalPages == IF ceil < 1 THEN 1 ELSE ceil
            currentPage == IF last.query.currentPage < totalPages
                           THEN last.query.currentPage ELSE totalPages
            sorted == CatalogProducts(records, now, last.query.sortCriteria)
            pagination == last.response.pagination[1]
        IN  /\ last.response.pagination # Null
            /\ last.response.totalProductsCount = total
            /\ pagination.totalPages = totalPages
            /\ pagination.currentPage = currentPage
            /\ last.response.products =
                  ExpectedPage(sorted, (currentPage - 1) * itemsPerPage, itemsPerPage)
            /\ pagination.hasPrevious = (currentPage > 1)
            /\ pagination.hasNext = (currentPage < totalPages)

\* 50 products, 24 a page, page 4 requested: page 3 of 3 with the last 2 products
C7_Witness ==
    /\ last.op = "productCatalog"
    /\ last.query.navigationMode = "pagination"
    /\ last.query.itemsPerPage = 24
    /\ last.query.currentPage = 4
    /\ last.response.totalProductsCount = 50
    /\ last.response.pagination[1].currentPage = 3
    /\ Len(last.response.products) = 2

\* C8: in infinite-scroll mode the products are the sorted items at positions
\* [loadedItemsCount, loadedItemsCount + 24), the returned loadedItemsCount is
\* min(loadedItemsCount + 24, total), hasMoreItems is loadedItemsCount + 24 <
\* total, and batchSize is 24 whatever itemsPerPage is.
C8_InfiniteScroll ==
    (last.op = "productCatalog" /\ last.query.navigationMode = "infinite_scroll") =>
        LET loaded == last.query.loadedItemsCount
            total == ActiveCount
            sorted == CatalogProducts(records, now, last.query.sortCriteria)
            scroll == last.response.infiniteScroll[1]
        IN  /\ last.response.infiniteScroll # Null
            /\ last.response.products = ExpectedPage(sorted, loaded, 24)
            /\ scroll.loadedItemsCount = (IF loaded + 24 < total THEN loaded + 24 ELSE total)
            /\ scroll.hasMoreItems = (loaded + 24 < total)
            /\ scroll.batchSize = 24

\* 12 items a page requested, 26 of 50 loaded: the last 24 come in one batch
C8_Witness ==
    /\ last.op = "productCatalog"
    /\ last.query.navigationMode = "infinite_scroll"
    /\ last.query.itemsPerPage = 12
    /\ last.query.loadedItemsCount = 26
    /\ last.response.totalProductsCount = 50
    /\ Len(last.response.products) = 24
    /\ last.response.infiniteScroll[1].loadedItemsCount = 50
    /\ ~last.response.infiniteScroll[1].hasMoreItems

NullsLast(s) ==
    \A i, j \in DOMAIN s : (i < j /\ s[i].price = Null) => s[j].price = Null

PricesAscending(s) ==
    \A i, j \in DOMAIN s :
        (i < j /\ s[i].price # Null /\ s[j].price # Null) => s[i].price[1] <= s[j].price[1]

PricesDescending(s) ==
    \A i, j \in DOMAIN s :
        (i < j /\ s[i].price # Null /\ s[j].price # Null) => s[i].price[1] >= s[j].price[1]

\* s holds every active product exactly once and nothing else
PermutationOfActive(s) ==
    /\ Len(s) = ActiveCount
    /\ \A i \in DOMAIN records :
          records[i].active =>
              \E k \in DOMAIN s : s[k] = WithIsNew(records[i], now)

\* C9: sorted by price_asc or price_desc, the catalog has every null price
\* after every non-null price, the non-null prices non-decreasing for price_asc
\* and non-increasing for price_desc, and is a permutation of the active
\* products; so is ordered every page a request for these criteria returns.
C9_PriceSort ==
    /\ LET asc == CatalogProducts(records, now, "price_asc")
           desc == CatalogProducts(records, now, "price_desc")
       IN  /\ NullsLast(asc) /\ PricesAscending(asc) /\ PermutationOfActive(asc)
           /\ NullsLast(desc) /\ PricesDescending(desc) /\ PermutationOfActive(desc)
    /\ (last.op = "productCatalog" /\ last.query.sortCriteria = "price_asc") =>
           (NullsLast(last.response.products) /\ PricesAscending(last.response.products))
    /\ (last.op = "productCatalog" /\ last.query.sortCriteria = "price_desc") =>
           (NullsLast(last.response.products) /\ PricesDescending(last.response.products))

\* products priced null, 10, 5 in the store come back 10, 5, null for price_desc
C9_Witness ==
    /\ last.op = "productCatalog"
    /\ last.query.sortCriteria = "price_desc"
    /\ [i \in DOMAIN records |-> records[i].price] = <<Null, Some(10), Some(5)>>
    /\ [i \in DOMAIN last.response.products |-> last.response.products[i].price] =
           <<Some(10), Some(5), Null>>

(***************************************************************************)
(* Claims about errors and promotional prices, checked under SpecProduct.  *)
(***************************************************************************)
C11_CreateAtCapacity ==
    (/\ last'.op = "productCreate"
     /\ last'.err # "VALIDATION_ERROR"
     /\ ~codeExists(records, last'.code, Null)
     /\ Len(records) >= MAX_PRODUCTS) =>
        /\ last'.err # ""
        /\ last'.err # "Error"
        /\ records' = records

\* C11: a productCreate with an unused code on a store that already holds
\* MAX_PRODUCTS records fails with an error that carries a kind tag (a
\* ServiceError with a code, not a plain Error) and leaves the store unchanged.
C11_CapacityErrorTagged == [][C11_CreateAtCapacity]_vars

(***************************************************************************)
(* Claims about promotional prices, checked under SpecPromotion.           *)
(***************************************************************************)
C12_PromotionalHasLowerPrice ==
    \A i \in DOMAIN records :
        records[i].isPromotional =>
            /\ records[i].promotionalPrice # Null
            /\ records[i].price # Null =>
                  records[i].promotionalPrice[1] < records[i].price[1]

\* a promotional input without a promotional price, or with one that is not
\* below its price
ViolatesPromotion(price, isPromotional, promotionalPrice) ==
    /\ isPromotional
    /\ \/ promotionalPrice = Null
       \/ (price # Null /\ promotionalPrice[1] >= price[1])

C12_ViolatingInputRejected ==
    \A price \in Prices, promotionalPrice \in PromotionalPrices :
        ViolatesPromotion(price, TRUE, promotionalPrice) =>
            /\ (/\ last'.op = "productCreate"
                /\ productCreate(PromotionBody(last'.code, price, TRUE, promotionalPrice))) =>
                   (last'.err = "VALIDATION_ERROR" /\ records' = records)
            /\ (/\ last'.op = "productUpdate"
                /\ productUpdate(last'.id, PromotionUpdateBody(last'.code, price, TRUE,
                                                               promotionalPrice))) =>
                   (last'.err = "VALIDATION_ERROR" /\ records' = records)

\* C12: every stored product with isPromotional = true has a non-null
\* promotionalPrice, below its price whenever the price is non-null; a
\* productCreate and a productUpdate whose input violates this fail with
\* VALIDATION_ERROR and leave the store unchanged.
C12_PromotionalPrice == [](C12_PromotionalHasLowerPrice) /\ [][C12_ViolatingInputRejected]_vars

\* an update was rejected while a promotional product at 3 for 5 is stored
C12_Witness ==
    /\ last.op = "productUpdate"
    /\ last.err = "VALIDATION_ERROR"
    /\ \E i \in DOMAIN records :
          /\ records[i].isPromotional
          /\ records[i].price = Some(5)
          /\ records[i].promotionalPrice = Some(3)

\* C13: every stored product whose promotionalPrice and price are both
\* non-null has promotionalPrice < price, whether or not it is promotional.
C13_PromotionalPriceBelowPrice ==
    \A i \in DOMAIN records :
        (records[i].promotionalPrice # Null /\ records[i].price # Null) =>
            records[i].promotionalPrice[1] < records[i].price[1]

(***************************************************************************)
(* Claims about galleryGet, checked under SpecGalleryGet.                  *)
(***************************************************************************)
C14_OneGalleryPerProduct ==
    \A i, j \in DOMAIN galleries :
        galleries[i].productId = galleries[j].productId => i = j

C14_GetCreatesOnce ==
    last'.op = "galleryGet" =>
        IF \E i \in DOMAIN galleries : galleries[i].productId = last'.productId
        THEN /\ galleries' = galleries
             /\ \E i \in DOMAIN galleries :
                   /\ galleries[i].productId = last'.productId
                   /\ last'.response.gallery.id = galleries[i].id
        ELSE /\ Len(galleries') = Len(galleries) + 1
             /\ SubSeq(galleries', 1, Len(galleries)) = galleries
             /\ LET gallery == galleries'[Len(galleries')]
                IN  /\ gallery.productId = last'.productId
                    /\ gallery.id \notin {galleries[i].id : i \in DOMAIN galleries}
                    /\ gallery.totalImages = 0
                    /\ gallery.mainImageUrl = ""
                    /\ gallery.displayMode = "page"
                    /\ gallery.currentVariationId = last'.variationId
                    /\ last'.response.gallery = gallery

Observable == \E r \in Requests : ~Running(r) /\ MayRun(r)

C15_NotInterleaved == Cardinality({r \in Requests : Running(r)}) <= 1

C15_WithinCapacity ==
    \A i \in DOMAIN galleries : ImageCount(images, galleries[i].id) <= MAX_IMAGES

C15_TotalNeverSeenStale ==
    Observable =>
        \A i \in DOMAIN galleries :
            galleries[i].totalImages = ImageCount(images, galleries[i].id)

\* C15: with galleryImageCreate and galleryImageDelete requests in flight
\* together, at most one request is between its capacity check (or lookup),
\* its insert (or removal) and its totalImages update at any time; no gallery
\* exceeds MAX_IMAGES images, and no request that can run finds a totalImages
\* that differs from the live image count.
C15_Serialized == C15_NotInterleaved /\ C15_WithinCapacity /\ C15_TotalNeverSeenStale

\* a create has inserted the last image a gallery can take and not yet counted
\* it, while another create for the same gallery waits
C15_Witness ==
    \E r, q \in Requests :
        /\ inflight[r].pc = "inserted"
        /\ inflight[q].pc = "received"
        /\ inflight[q].kind = "create"
        /\ inflight[q].target = inflight[r].target
        /\ ImageCount(images, inflight[r].target) = MAX_IMAGES
        /\ GetId(galleries, inflight[r].target).totalImages = MAX_IMAGES - 1

(***************************************************************************)
(* Claims about the order of a gallery's images, checked under             *)
(* SpecGalleryOrder.                                                       *)
(***************************************************************************)
\* C16: the images galleryGet returns are exactly the stored images of the
\* gallery it returns, each once, ordered by lazyLoadPriority ascending and,
\* among equal priorities, by displayOrder ascending.
C16_ImagesSorted ==
    last.op = "galleryGet" =>
        LET returned == last.response.images
            galleryId == last.response.gallery.id
        IN  /\ last.response.gallery.productId = last.productId
            /\ Len(returned) = ImageCount(images, galleryId)
            /\ \A k \in DOMAIN returned : returned[k].galleryId = galleryId
            /\ \A i \in DOMAIN images :
                  images[i].galleryId = galleryId =>
                      \E k \in DOMAIN returned : returned[k] = images[i]
            /\ \A j, k \in DOMAIN returned :
                  j < k =>
                      \/ returned[j].lazyLoadPriority < returned[k].lazyLoadPriority
                      \/ /\ returned[j].lazyLoadPriority = returned[k].lazyLoadPriority
                         /\ returned[j].displayOrder <= returned[k].displayOrder

\* a lateral image with displayOrder 1 stored before a frontal image with
\* displayOrder 2 comes back after it, and the other gallery's image stays out
C16_Witness ==
    /\ last.op = "galleryGet"
    /\ Len(images) = 3
    /\ Len(last.response.images) = 2
    /\ last.response.images[1].id > last.response.images[2].id
    /\ last.response.images[1].imageCategory = "frontal"
    /\ last.response.images[1].displayOrder = 2
    /\ last.response.images[2].imageCategory = "lateral"
    /\ last.response.images[2].displayOrder = 1

(***************************************************************************)
(* Claims about the variation of a galleryGet, checked under               *)
(* SpecGalleryGet.                                                         *)
(***************************************************************************)
\* what galleryGet returns for a product that has a gallery
ExistingGalleryResponse(productId, variationId) ==
    GalleryResponse(galleries, getByProductId(galleries, productId), productId, variationId)

C17_SameForEveryVariation ==
    \A productId \in GalleryProductIds :
        HasGalleryOfProduct(galleries, productId) =>
            \A v, w \in RequestedVariations :
                LET first == ExistingGalleryResponse(productId, v)
                    second == ExistingGalleryResponse(productId, w)
                IN  /\ first.images = second.images
                    /\ first.variations = second.variations
                    /\ first.gallery = second.gallery

C17_GetReadsOnly ==
    (/\ last'.op = "galleryGet"
     /\ HasGalleryOfProduct(galleries, last'.productId)) =>
        /\ last'.response = ExistingGalleryResponse(last'.productId, last'.variationId)
        /\ UNCHANGED galleryVars

\* C17: for a product that has a gallery, galleryGet leaves the store as it
\* is and returns the same images in the same order, the same variations and
\* the same gallery record whatever variationId the query carries, absent
\* included.
C17_VariationIgnored == [](C17_SameForEveryVariation) /\ [][C17_GetReadsOnly]_vars

\* a galleryGet naming a variation returned both images and the variation of
\* a product whose gallery was created without one
C17_Witness ==
    /\ last.op = "galleryGet"
    /\ ~last.created
    /\ last.variationId = Some("v1")
    /\ Len(last.response.images) = 2
    /\ Len(last.response.variations) >= 1
    /\ last.response.gallery.currentVariationId = Null

(***************************************************************************)
(* Claims about NOT_FOUND in the gallery service, checked under            *)
(* SpecGallery.                                                            *)
(***************************************************************************)
C18_CreateWithoutGallery ==
    (/\ last'.op = "galleryImageCreate"
     /\ \A i \in DOMAIN galleries : galleries[i].id # last'.galleryId) =>
        /\ last'.err = "NOT_FOUND"
        /\ images' = images
        /\ galleries' = galleries

\* C18: a galleryImageCreate that names a galleryId no stored gallery has
\* fails with NOT_FOUND, stores no image and changes no gallery.
C18_CreateNotFound == [][C18_CreateWithoutGallery]_vars

\* a create for a missing gallery was rejected while the other gallery holds
\* an image
C18_Witness ==
    /\ last.op = "galleryImageCreate"
    /\ last.err = "NOT_FOUND"
    /\ Len(galleries) = 1
    /\ galleries[1].id # last.galleryId
    /\ Len(images) >= 1

C19_DeleteStep ==
    last'.op = "galleryImageDelete" =>
        IF \A i \in DOMAIN images : images[i].id # last'.imageId
        THEN /\ last'.err = "NOT_FOUND"
             /\ images' = images
             /\ galleries' = galleries
        ELSE LET owner == (CHOOSE i \in DOMAIN images : images[i].id = last'.imageId)
             IN  /\ last'.err = ""
                 /\ images' = SelectSeq(images, LAMBDA img : img.id # last'.imageId)
                 /\ Len(images') = Len(images) - 1
                 /\ \A i \in DOMAIN images' : images'[i].id # last'.imageId
                 /\ Len(galleries') = Len(galleries)
                 /\ \A i \in DOMAIN galleries :
                       galleries[i].id # images[owner].galleryId =>
                           galleries'[i] = galleries[i]

\* C19: a galleryImageDelete of an id no stored image has fails with
\* NOT_FOUND and changes nothing; one of a stored image removes exactly that
\* image, so that the id is no longer stored and a second delete of it fails
\* with NOT_FOUND, and leaves every other image and every other gallery as
\* it was.
C19_DeleteExactlyOne == [][C19_DeleteStep]_vars

\* an image was deleted from a full store: the images that remain fill one
\* gallery, or one is left in each
C19_Witness ==
    /\ last.op = "galleryImageDelete"
    /\ last.err = ""
    /\ Len(images) = MAX_IMAGES
    /\ \A i \in DOMAIN images : images[i].id # last.imageId

(***************************************************************************)
(* C20.  In every reachable state each stored image's lazyLoadPriority is  *)
(* the fixed rank of its imageCategory: frontal 1, lateral 2, detalhes 3,  *)
(* ambiente 4, perspectiva 5.  galleryImageCreate assigns it from the      *)
(* category; galleryImageUpdate recomputes it whenever the update carries  *)
(* a category, and leaves every field the update does not name as it was.  *)
(***************************************************************************)
CategoryRank ==
    [frontal |-> 1, lateral |-> 2, detalhes |-> 3, ambiente |-> 4, perspectiva |-> 5]

C20_PriorityIsRank ==
    /\ \A c \in ImageCategories : calculateLazyLoadPriority(c) = CategoryRank[c]
    /\ \A i \in DOMAIN images :
          images[i].lazyLoadPriority = CategoryRank[images[i].imageCategory]

\* the images other than id are the same before and after the step
C20_OthersKept(id) ==
    /\ \A i \in DOMAIN images : images[i].id # id => HasId(images', images[i].id)
                                                     /\ GetId(images', images[i].id) = images[i]
    /\ \A i \in DOMAIN images' : images'[i].id # id => HasId(images, images'[i].id)

C20_CreateAssigns ==
    (last'.op = "galleryImageCreate" /\ last'.err = "") =>
        \E c \in ImageCategories :
            /\ galleryImageCreate(last'.galleryId, "u1", 1, c)
            /\ ~HasId(images, last'.imageId)
            /\ GetId(images', last'.imageId).imageCategory = c
            /\ GetId(images', last'.imageId).lazyLoadPriority = CategoryRank[c]
            /\ C20_OthersKept(last'.imageId)

C20_UpdateRecomputes ==
    (last'.op = "galleryImageUpdate" /\ last'.err = "") =>
        \A body \in RankUpdateBodies :
            galleryImageUpdate(last'.imageId, body) =>
                LET old == GetId(images, last'.imageId)
                    new == GetId(images', last'.imageId)
                    named == DOMAIN body \cup
                                (IF "imageCategory" \in DOMAIN body
                                 THEN {"lazyLoadPriority"} ELSE {})
                IN  /\ HasId(images, last'.imageId)
                    /\ DOMAIN new = DOMAIN old
                    /\ \A f \in DOMAIN body : new[f] = body[f]
                    /\ "imageCategory" \in DOMAIN body =>
                           new.lazyLoadPriority = CategoryRank[body.imageCategory]
                    /\ \A f \in DOMAIN old \ named : new[f] = old[f]
                    /\ C20_OthersKept(last'.imageId)
                    /\ galleries' = galleries

C20_LazyLoadPriority ==
    /\ []C20_PriorityIsRank
    /\ [][C20_CreateAssigns /\ C20_UpdateRecomputes]_vars

\* image 1 carries the category of the update that names the category alone
\* and the displayOrder an earlier update gave it, beside an image that was
\* never updated
C20_Witness ==
    /\ last.op = "galleryImageUpdate" /\ last.err = "" /\ last.imageId = 1
    /\ HasId(images, 1) /\ HasId(images, 2)
    /\ GetId(images, 1).imageCategory = "perspectiva"
    /\ GetId(images, 1).lazyLoadPriority = 5
    /\ GetId(images, 1).displayOrder = 2
    /\ GetId(images, 1).fullSizeUrl = "u1"
    /\ GetId(images, 2).imageCategory = "detalhes"
    /\ GetId(images, 2).lazyLoadPriority = 3
    /\ GetId(images, 2).displayOrder = 1

(***************************************************************************)
(* C21.  Every operation other than the create operations is idempotent    *)
(* for a caller that retries it: performing productUpdate, productDelete,  *)
(* productInteraction, galleryGet, galleryImageUpdate or galleryImageDelete*)
(* a second time in succession with the same arguments leaves the stores   *)
(* as the first performance left them.                                     *)
(***************************************************************************)
\* the last call was the request the client holds
SentOnce ==
    /\ inflight[Client].pc = "held"
    /\ last.op = inflight[Client].kind
    /\ last.op = "galleryGet" => last.productId = inflight[Client].args[1]

Stores == <<galleries, images, variations, records>>

RetriedOperations ==
    {"productUpdate", "productDelete", "productInteraction", "galleryGet",
     "galleryImageUpdate", "galleryImageDelete"}

\* the second performance of op leaves the stores as they are
C21_SecondKeeps(op) == (SentOnce /\ last.op = op) => Stores' = Stores

C21_RetrySafe == [][\A op \in RetriedOperations : C21_SecondKeeps(op)]_vars

(***************************************************************************)
(* C22.  The isNew flag of every product returned by productCatalog,       *)
(* productGet and productUpdate is computed from createdDate and the       *)
(* current time: it is true exactly when the whole days between them are   *)
(* at most 30, whatever the stored record holds (its isNew stays true from *)
(* creation).  A product created exactly 30 days ago is new; one created   *)
(* 31 days ago is not.                                                     *)
(***************************************************************************)
\* the product is in its first 30 whole days, or in the day after them
C22_ExpectedIsNew(product) == now - product.createdDate < 31 * TicksPerDay

C22_ReturnedIsNew(product) ==
    /\ HasId(records, product.id)
    /\ product.isNew = C22_ExpectedIsNew(GetId(records, product.id))
    /\ (now - GetId(records, product.id).createdDate = 30 * TicksPerDay) => product.isNew
    /\ (now - GetId(records, product.id).createdDate = 31 * TicksPerDay) => ~product.isNew

\* the response in last was computed at the instant now
C22_ResponseComputed ==
    /\ (last.op \in {"productGet", "productUpdate"} /\ last.err = "") =>
           C22_ReturnedIsNew(last.response[1])
    /\ last.op = "productCatalog" =>
           /\ Len(last.response.products) = Len(getAll(records))
           /\ \A i \in DOMAIN last.response.products :
                  C22_ReturnedIsNew(last.response.products[i])

C22_StoredStaysTrue == \A i \in DOMAIN records : records[i].isNew

C22_IsNewFromClock ==
    /\ []C22_StoredStaysTrue
    /\ [][now' = now => C22_ResponseComputed']_vars

\* a catalog that holds a product created exactly 30 days ago and one created
\* 31 days ago
C22_Witness ==
    /\ last.op = "productCatalog"
    /\ Len(last.response.products) = 2
    /\ \E i, j \in DOMAIN last.response.products :
          /\ now - GetId(records, last.response.products[i].id).createdDate = 30 * TicksPerDay
          /\ last.response.products[i].isNew
          /\ now - GetId(records, last.response.products[j].id).createdDate = 31 * TicksPerDay
          /\ ~last.response.products[j].isNew
    /\ \A i \in DOMAIN records : records[i].isNew

(***************************************************************************)
(* C23.  galleryImageCreate on a gallery that already holds at least one   *)
(* image, galleryImageUpdate and galleryImageDelete all leave the          *)
(* mainImageUrl of the gallery, and of every gallery, as it was; that      *)
(* covers the delete of the image whose fullSizeUrl mainImageUrl holds.    *)
(***************************************************************************)
C23_MainKept ==
    /\ Len(galleries') = Len(galleries)
    /\ \A i \in DOMAIN galleries :
          /\ galleries'[i].id = galleries[i].id
          /\ galleries'[i].mainImageUrl = galleries[i].mainImageUrl

C23_LaterCreate ==
    /\ last'.op = "galleryImageCreate"
    /\ \E galleryId \in GalleryIds, fullSizeUrl \in Urls :
          /\ galleryImageCreate(galleryId, fullSizeUrl, 1, "frontal")
          /\ ImageCount(images, galleryId) >= 1

C23_UpdateOrDelete ==
    \/ \E id \in ImageIds : galleryImageUpdate(id, [displayOrder |-> 2])
    \/ \E id \in ImageIds : galleryImageDelete(id)

C23_MainImageUrlKept ==
    [][(C23_LaterCreate \/ C23_UpdateOrDelete) => C23_MainKept]_vars

\* the image added first was deleted and the one added to the gallery that
\* already held it remains
C23_Witness ==
    /\ last.op = "galleryImageDelete" /\ last.err = ""
    /\ Len(images) = 1
    /\ images[1].fullSizeUrl = "u2"
    /\ images[1].displayOrder = 2
    /\ Len(galleries) = 1
    /\ galleries[1].totalImages = 1
    /\ galleries[1].mainImageUrl = ""

(***************************************************************************)
(* C24.  A successful productInteraction of kind view, click or            *)
(* interaction on an active product increases exactly the matching counter *)
(* by 1 and leaves the other two counters, every non-popularity field of   *)
(* that product, and every other product unchanged; on a missing or        *)
(* soft-deleted product it fails with NOT_FOUND and changes nothing.       *)
(***************************************************************************)
PopularityFields ==
    {"viewCount", "clickCount", "interactionCount", "popularityScore",
     "lastPopularityUpdate"}

C24_Counted(productId, interactionType) ==
    LET old == GetId(records, productId)
        new == GetId(records', productId)
    IN  /\ last'.err = ""
        /\ Len(records') = Len(records)
        /\ HasId(records', productId)
        /\ CounterOf(new, interactionType) = CounterOf(old, interactionType) + 1
        /\ \A other \in InteractionTypes \ {interactionType} :
              CounterOf(new, other) = CounterOf(old, other)
        /\ DOMAIN new = DOMAIN old
        /\ \A f \in DOMAIN old \ PopularityFields : new[f] = old[f]
        /\ \A i \in DOMAIN records :
              records[i].id # productId => records'[i] = records[i]

C24_Rejected ==
    /\ last'.err = "NOT_FOUND"
    /\ Stores' = Stores

C24_InteractionStep ==
    \A productId \in ProductIds, interactionType \in InteractionTypes :
        productInteraction(productId, interactionType) =>
            IF HasId(records, productId) /\ GetId(records, productId).active
            THEN C24_Counted(productId, interactionType)
            ELSE C24_Rejected

C24_ExactlyOneCounter == [][C24_InteractionStep]_vars

\* a click was counted on product 2 beside a soft-deleted product that keeps
\* the view counted before its deletion
C24_Witness ==
    /\ last.op = "productInteraction" /\ last.err = ""
    /\ last.id = 2 /\ last.interactionType = "click"
    /\ Len(records) = 2
    /\ ~records[1].active /\ Counters(records[1]) = <<1, 0, 0, 1>>
    /\ records[2].active /\ Counters(records[2]) = <<0, 1, 0, 3>>

(***************************************************************************)
(* C25.  Soft-deleting a product never removes its record: after           *)
(* productDelete the record is still held in the store under the same id   *)
(* with active = false and all other fields unchanged, and the number of   *)
(* records held by the product store never decreases under any sequence of *)
(* service operations.                                                     *)
(***************************************************************************)
C25_DeleteKeepsRecord ==
    (last'.op = "productDelete" /\ last'.err = "" /\ productDelete(last'.id)) =>
        /\ HasId(records, last'.id)
        /\ GetId(records, last'.id).active
        /\ Len(records') = Len(records)
        /\ \A i \in DOMAIN records :
              records'[i] = IF records[i].id = last'.id
                            THEN [records[i] EXCEPT !.active = FALSE]
                            ELSE records[i]

C25_NeverFewer ==
    /\ Len(records') >= Len(records)
    /\ \A i \in DOMAIN records : records'[i].id = records[i].id

C25_RecordsKept == [][C25_DeleteKeepsRecord /\ C25_NeverFewer]_vars

\* product 1 was soft-deleted and is held beside product 2
C25_Witness ==
    /\ last.op = "productDelete" /\ last.err = "" /\ last.id = 1
    /\ Len(records) = 2
    /\ records[1].id = 1 /\ ~records[1].active /\ records[1].price = Some(5)
    /\ records[2].active

(***************************************************************************)
(* C26.  The product capacity check counts soft-deleted records:           *)
(* productCreate is rejected as soon as the number of stored records,      *)
(* active plus soft-deleted, has reached the maximum, even when the number *)
(* of active products is below the maximum, and no sequence of service     *)
(* operations makes creation possible again.                               *)
(***************************************************************************)
C26_Full == Len(records) >= MAX_PRODUCTS

C26_CreateRejected ==
    last'.op = "productCreate" =>
        \A code \in Codes, price \in {Null, Some(5)} :
            productCreate(ProductBody(code, price)) =>
                (last'.err # "" /\ records' = records)

C26_FullStep == C26_Full => (C26_Full' /\ C26_CreateRejected)

C26_FullForGood == [](Len(records) <= MAX_PRODUCTS) /\ [][C26_FullStep]_vars

\* a create with a free code was rejected by a store that holds only one
\* active product
C26_Witness ==
    /\ last.op = "productCreate" /\ last.err = "Error"
    /\ Len(records) = MAX_PRODUCTS
    /\ Len(getAll(records)) = 1
    /\ ~codeExists(records, last.code, Null)

(***************************************************************************)
(* C27.  Once a product's active flag is false, whether through            *)
(* productDelete or through productUpdate with active = false, no sequence *)
(* of service operations makes it active again: every later productGet,    *)
(* productUpdate, productDelete and productInteraction on that id fails    *)
(* with NOT_FOUND, and its code may be taken by a newly created product.   *)
(* The requests are those that pass validation.                            *)
(***************************************************************************)
Inactive(recs, id) == HasId(recs, id) /\ ~GetId(recs, id).active

C27_StaysInactive ==
    \A i \in DOMAIN records :
        ~records[i].active =>
            /\ i \in DOMAIN records'
            /\ records'[i].id = records[i].id
            /\ ~records'[i].active

C27_CallsNotFound ==
    (/\ last'.op \in {"productGet", "productUpdate", "productDelete", "productInteraction"}
     /\ Inactive(records, last'.id)) =>
        (last'.err = "NOT_FOUND" /\ records' = records)

\* a create whose code only inactive products hold is accepted while the store
\* has room
C27_CodeFree ==
    (/\ last'.op = "productCreate"
     /\ \E i \in DOMAIN records : records[i].code = last'.code
     /\ \A i \in DOMAIN records : records[i].code = last'.code => ~records[i].active
     /\ Len(records) < MAX_PRODUCTS) =>
        /\ last'.err = ""
        /\ Len(records') = Len(records) + 1
        /\ records'[Len(records')].code = last'.code
        /\ records'[Len(records')].active

C27_InactiveForGood ==
    [][C27_StaysInactive /\ C27_CallsNotFound /\ C27_CodeFree]_vars

\* product 1 was deactivated after a view, its code went to product 2, and a
\* later update of product 1 was refused
C27_Witness ==
    /\ last.op = "productUpdate" /\ last.err = "NOT_FOUND" /\ last.id = 1
    /\ Len(records) = 2
    /\ ~records[1].active /\ records[2].active
    /\ records[1].code = records[2].code
    /\ records[1].viewCount = 1

(***************************************************************************)
(* C28.  With the store unchanged between calls and a fixed sort criterion *)
(* and itemsPerPage, the pages 1..totalPages returned by productCatalog in *)
(* pagination mode partition the active products: every active product     *)
(* appears on exactly one page, no soft-deleted product appears on any     *)
(* page, every page except possibly the last holds exactly itemsPerPage    *)
(* products, and totalProductsCount equals the number of active products.  *)
(***************************************************************************)
ActiveIds == {records[i].id : i \in {j \in DOMAIN records : records[j].active}}

\* no id twice, and none of a product that is not active
ReceivedOnce ==
    /\ \A i, j \in DOMAIN Browser.received :
          Browser.received[i] = Browser.received[j] => i = j
    /\ \A i \in DOMAIN Browser.received : Browser.received[i] \in ActiveIds

ReceivedAll == {Browser.received[i] : i \in DOMAIN Browser.received} = ActiveIds

C28_PagesPartition ==
    (Browser.pc \in {"browsing", "done"} /\ Browser.navigationMode = "pagination") =>
        /\ ReceivedOnce
        /\ \A k \in 1..(Len(Browser.sizes) - 1) : Browser.sizes[k] = Browser.itemsPerPage
        /\ Browser.pc = "done" =>
              /\ ReceivedAll
              /\ Browser.totalProductsCount = Cardinality(ActiveIds)
              /\ Len(Browser.sizes) = last.response.pagination[1].totalPages

\* four pages of 12, the last one short, were fetched from a store with
\* soft-deleted products
C28_Witness ==
    /\ Browser.pc = "done"
    /\ Browser.navigationMode = "pagination"
    /\ Browser.itemsPerPage = 12
    /\ Browser.sortCriteria = "price_desc"
    /\ Len(Browser.sizes) = 4
    /\ Browser.sizes[4] < 12
    /\ Len(records) > Cardinality(ActiveIds)

(***************************************************************************)
(* C29.  A client that starts at loadedItemsCount = 0 and repeatedly calls *)
(* productCatalog in infinite-scroll mode with the loadedItemsCount        *)
(* returned by the previous call, while the store is unchanged, reaches    *)
(* hasMoreItems = false after max(1, ceil(total/24)) calls, having         *)
(* received every active product exactly once; and whenever the input      *)
(* loadedItemsCount is at most total, the returned loadedItemsCount equals *)
(* the input plus the number of products returned.                         *)
(***************************************************************************)
\* max(1, ceil(total/24))
C29_Calls(total) ==
    IF total = 0 THEN 1
    ELSE CHOOSE n \in 1..total : n * 24 >= total /\ (n - 1) * 24 < total

C29_Scrolled ==
    (Browser.pc \in {"browsing", "done"} /\ Browser.navigationMode = "infinite_scroll") =>
        /\ ReceivedOnce
        /\ Len(Browser.sizes) <= C29_Calls(Cardinality(ActiveIds))
        /\ (Browser.pc = "done") <=>
               (Len(Browser.sizes) = C29_Calls(Cardinality(ActiveIds)))
        /\ Browser.pc = "done" =>
              /\ ReceivedAll
              /\ ~last.response.infiniteScroll[1].hasMoreItems

C29_LoadedAdds ==
    (/\ last.op = "productCatalog"
     /\ last.query.navigationMode = "infinite_scroll"
     /\ last.query.loadedItemsCount <= Cardinality(ActiveIds)) =>
        last.response.infiniteScroll[1].loadedItemsCount =
            last.query.loadedItemsCount + Len(last.response.products)

C29_ScrollReachesEnd == C29_Scrolled /\ C29_LoadedAdds

\* two batches, of 24 and of 1, were fetched from a store with soft-deleted
\* products
C29_Witness ==
    /\ Browser.pc = "done"
    /\ Browser.navigationMode = "infinite_scroll"
    /\ Browser.sizes = <<24, 1>>
    /\ Browser.loadedItemsCount = 25
    /\ Len(records) > Cardinality(ActiveIds)

(***************************************************************************)
(* C30.  In the storefront zoom hook, after any sequence of zoomIn,        *)
(* zoomOut, toggleZoom, resetZoom and setZoomPosition calls, the zoom      *)
(* level is one of 1, 2, 4, 8, isActive is true exactly when the level is  *)
(* greater than 1, and positionX and positionY lie within [0, 1]; zoomIn   *)
(* at level 8 and zoomOut at level 1 leave the state unchanged, and        *)
(* toggleZoom from any level above 1 returns to the initial state (level   *)
(* 1, position 0.5/0.5, inactive).                                         *)
(***************************************************************************)
C30_ZoomStateValid ==
    /\ zoomState.level \in {1, 2, 4, 8}
    /\ zoomState.isActive <=> zoomState.level > 1
    /\ zoomState.positionX >= 0 /\ zoomState.positionX <= PositionScale
    /\ zoomState.positionY >= 0 /\ zoomState.positionY <= PositionScale

C30_AtTheEnds ==
    /\ (zoomIn /\ zoomState.level = 8) => zoomState' = zoomState
    /\ (zoomOut /\ zoomState.level = 1) => zoomState' = zoomState
    /\ (zoomIn /\ zoomState.level < 8) => zoomState'.level = 2 * zoomState.level
    /\ (zoomOut /\ zoomState.level > 1) => 2 * zoomState'.level = zoomState.level

C30_ToggleBack ==
    (toggleZoom /\ zoomState.level > 1) =>
        zoomState' = [level |-> 1, positionX |-> HalfScale, positionY |-> HalfScale,
                      isActive |-> FALSE]

C30_ZoomHook == []C30_ZoomStateValid /\ [][C30_AtTheEnds /\ C30_ToggleBack]_vars

\* the deepest level, with the position clamped to a corner of the image
C30_Witness ==
    /\ zoomState.level = 8
    /\ zoomState.isActive
    /\ zoomState.positionX = 0
    /\ zoomState.positionY = PositionScale

=============================================================================
